---- MODULE Spec2Model ----
(***************************************************************************)
(* Verification model of the ADS-MQTT broker's data-plane engine.          *)
(*                                                                         *)
(*   SpecBuf, SpecRange, SpecStats : CircularBuffer                        *)
(*                  (src/src/circular-buffer.ts)                           *)
(*   SpecGw   : AdsGateway, one PLC session (src/src/ads-gateway.ts) as    *)
(*              driven through AdsConnectionManager                        *)
(*   SpecDisc : AdsSymbolDiscovery, the discovery loop of one connection   *)
(*              (src/src/ads-symbol-discovery.ts)                          *)
(*   SpecLink : AdsGateway on a link to the PLC that can drop              *)
(*   SpecReg  : AdsConnectionManager's variables-discovered handler        *)
(*              driving the gateway (src/src/ads-connection-manager.ts)    *)
(*   SpecQueue, SpecPrio, SpecRetry : EventQueueManager                    *)
(*              (src/src/event-queue.ts)                                   *)
(*   SpecAdd  : AdsConnectionManager.addVariable, succeeding and failing   *)
(*   SpecMgr  : AdsConnectionManager over several connections, each with   *)
(*              its gateway and discovery object                           *)
(*   SpecCache : RedisCache get/set (src/src/persistence.ts)               *)
(*   SpecPerf, SpecClean : PerformanceMonitor                              *)
(*              (src/src/network-scanner.ts)                               *)
(***************************************************************************)
EXTENDS Integers, Sequences, FiniteSets, TLC

(***************************************************************************)
(* Bounds of the ring-buffer model.                                        *)
(***************************************************************************)
MaxCapacity == 3
MaxPush == 4
MaxTime == 1

VARIABLES
  capacity,    \* CircularBuffer.capacity
  buffer,      \* CircularBuffer.buffer : slot -> reference to an entry object (0 = never written)
  head,        \* CircularBuffer.head
  tail,        \* CircularBuffer.tail
  size,        \* CircularBuffer.size
  heap,        \* the BufferEntry objects; object i is the one created by the i-th push
  sinceClear,  \* history: number of pushes since construction or the last clear()
  now,         \* Date.now()
  result       \* the value returned by the last query call

bufVars == <<capacity, buffer, head, tail, size, heap, sinceClear, now, result>>

(***************************************************************************)
(* Bounds of the gateway model.                                            *)
(***************************************************************************)
MaxCalls == 3
MaxSamples == 2

VARIABLES
  client,      \* AdsGateway.client : the current Client object (0 = null)
  clients,     \* the Client objects ever created, by creation order: their session state
  connected,   \* AdsGateway.connected
  handles,     \* AdsGateway.handles : variable id -> AdsHandle object (0 = no entry)
  hobj,        \* the AdsHandle objects ever created
  chan,        \* per Client: read responses and notifications in flight, in order
  tasks,       \* addVariable calls: where each one is suspended
  removing,    \* removeVariable calls suspended in unsubscribe
  calls,       \* number of connect / addVariable / removeVariable calls made
  plcSeq,      \* number of samples the PLC session has produced
  delivered    \* per variable id: the samples a variable-changed listener received, in order

gwVars == <<client, clients, connected, handles, hobj, chan, tasks, removing, calls, plcSeq, delivered>>

(***************************************************************************)
(* Bounds of the discovery model.                                          *)
(***************************************************************************)
MaxVersion == 2
MaxRuns == 3

VARIABLES
  plcVersion,         \* the PLC's OnlineChange counter (readPlcSymbolVersion)
  lastSymbolVersion,  \* AdsSymbolDiscovery.lastSymbolVersion
  isDiscovering,      \* AdsSymbolDiscovery.isDiscovering
  discoveryTimer,     \* AdsSymbolDiscovery.discoveryTimer is set and running
  runs,               \* the checkForChanges / triggerDiscovery calls that got past their entry
  observed,           \* history: some check has read the counter
  discEvents          \* the discovery events emitted so far

discVars == <<plcVersion, lastSymbolVersion, isDiscovering, discoveryTimer, runs, observed, discEvents>>

(***************************************************************************)
(* Bounds of the re-registration model.                                    *)
(***************************************************************************)
MaxDiscoveries == 2

VARIABLES
  plcSymbols,  \* the symbols the PLC's symbol table holds (by the id of their Variable)
  autoAdd      \* runs of the manager's variables-discovered handler

regVars == <<plcSymbols, autoAdd>>

(***************************************************************************)
(* Bounds of the work-queue model.                                         *)
(***************************************************************************)
MaxJobs == 3
MaxAttempts == 7
MaxPrioJobs == 4

VARIABLES
  jobs,     \* the jobs ever added to the Bull queues, by order of their add call
  wait,     \* per queue: the ids of its waiting jobs, next one first
  closing,  \* EventQueueManager.close() was called
  closedQ,  \* the queues whose close() has resolved
  applied   \* the variable-write jobs whose 'queue.variable-write' event went out, in order

queueVars == <<jobs, wait, closing, closedQ, applied>>

(***************************************************************************)
(* Bounds of the connection-manager model.                                 *)
(***************************************************************************)
MaxMgrCalls == 4

VARIABLES
  gws,                  \* the AdsGateway objects the manager ever created
  discs,                \* the AdsSymbolDiscovery objects the manager ever created
  connections,          \* AdsConnectionManager.connections: id -> gateway (0: no entry)
  configs,              \* AdsConnectionManager.configs: id -> config
  symbolDiscoveries,    \* AdsConnectionManager.symbolDiscoveries: id -> discovery (0: no entry)
  variableToConnection, \* AdsConnectionManager.variableToConnection: variable id -> connection id
  mtasks,               \* the manager's calls that await something, and finished calls
  mcalls                \* number of calls made to the manager

mgrVars == <<gws, discs, connections, configs, symbolDiscoveries, variableToConnection, mtasks, mcalls>>

(***************************************************************************)
(* Bounds of the cache model.                                              *)
(***************************************************************************)
MaxCacheCalls == 3

VARIABLES
  redisUp,    \* the Redis server is reachable
  store,      \* what Redis holds under each key
  ccalls,     \* the get and set calls made to RedisCache
  hitCount,   \* RedisCache.hitCount
  missCount,  \* RedisCache.missCount
  setCount    \* RedisCache.setCount

cacheVars == <<redisUp, store, ccalls, hitCount, missCount, setCount>>

(***************************************************************************)
(* Bounds of the performance-monitor model.                                *)
(***************************************************************************)
MaxMetrics == 2
MaxRecords == 4
MaxMeasures == 1
MaxPerfTime == 2
MaxCleanups == 1

VARIABLES
  maxMetricsPerOperation, \* PerformanceMonitor.maxMetricsPerOperation
  metrics,                \* PerformanceMonitor.metrics: operation -> durations
  operationCounts,        \* PerformanceMonitor.operationCounts
  recorded,               \* per operation: every duration recorded since its last reset
  lastSample,             \* per operation: when its last duration was recorded
  measured,               \* the measure() calls: awaiting fn, or what they did
  perfNow,                \* Date.now(), in hours
  cleanupRuns             \* number of runs of cleanup()

perfVars == <<maxMetricsPerOperation, metrics, operationCounts, recorded, lastSample,
              measured, perfNow, cleanupRuns>>

vars == <<bufVars, gwVars, discVars, regVars, queueVars, mgrVars, cacheVars, perfVars>>

\* What the actions of one component leave alone.
notBufVars == <<gwVars, discVars, regVars, queueVars, mgrVars, cacheVars, perfVars>>
notGwVars == <<bufVars, discVars, regVars, queueVars, mgrVars, cacheVars, perfVars>>
notDiscVars == <<bufVars, gwVars, regVars, queueVars, mgrVars, cacheVars, perfVars>>
notQueueVars == <<bufVars, gwVars, discVars, regVars, mgrVars, cacheVars, perfVars>>
notMgrVars == <<bufVars, gwVars, discVars, regVars, queueVars, cacheVars, perfVars>>
notCacheVars == <<bufVars, gwVars, discVars, regVars, queueVars, mgrVars, perfVars>>
notPerfVars == <<bufVars, gwVars, discVars, regVars, queueVars, mgrVars, cacheVars>>

(***************************************************************************)
(* JavaScript helpers.                                                     *)
(***************************************************************************)
\* JavaScript's % : the result takes the sign of the dividend.
JsRem(a, b) == IF a >= 0 THEN a % b ELSE 0 - ((0 - a) % b)

\* Array read: an index outside the array yields undefined (0 = no entry).
Slot(i) == IF i \in DOMAIN buffer THEN buffer[i] ELSE 0

MathMin(a, b) == IF a <= b THEN a ELSE b

\* JavaScript values pushed into the buffer: numbers and one non-number.
NumVal(x) == [t |-> "number", n |-> x]
StrVal == [t |-> "string", n |-> 0]
Values == {NumVal(0 - 2), NumVal(1), StrVal}
Times == 0 .. MaxTime

Undefined == <<>>
None == [op |-> "none"]

\* Doubles are modelled as <<n, e>> = n + e * 5e-324, ordered lexicographically.
Dbl(x) == <<x, 0>>
DblLeq(a, b) == a[1] < b[1] \/ (a[1] = b[1] /\ a[2] <= b[2])
DblMin(a, b) == IF DblLeq(a, b) THEN a ELSE b
DblMax(a, b) == IF DblLeq(a, b) THEN b ELSE a
\* Number.MAX_VALUE: above every value of the model.
NumberMAX_VALUE == <<1000000, 0>>
\* Number.MIN_VALUE: the smallest POSITIVE double, 5e-324.
NumberMIN_VALUE == <<0, 1>>

(***************************************************************************)
(* CircularBuffer: the read operations, computed as the code computes     *)
(* them.  Entries are returned by reference (object ids).                  *)
(***************************************************************************)
length == size

latest ==
  IF size = 0 THEN 0
  ELSE LET index == IF tail = 0 THEN capacity - 1 ELSE tail - 1
       IN Slot(index)

\* Mutant of oldest: reads slot 0 instead of the slot at head.
oldestSlotZero == IF size = 0 THEN 0 ELSE Slot(0)

oldest == IF size = 0 THEN 0 ELSE Slot(head)

at(index) ==
  IF index < 0 \/ index >= size THEN 0
  ELSE Slot(JsRem(head + index, capacity))

toArray == [i \in 1 .. size |-> Slot(JsRem(head + (i - 1), capacity))]

\* Mutant of InRange: the end bound is exclusive.
InRangeExclusiveEnd(entry, startTime, endTime) ==
  heap[entry].timestamp >= startTime /\ heap[entry].timestamp < endTime

InRange(entry, startTime, endTime) ==
  heap[entry].timestamp >= startTime /\ heap[entry].timestamp <= endTime

RECURSIVE RangeLoop(_, _, _, _)
RangeLoop(i, startTime, endTime, acc) ==
  IF ~(i < size) THEN acc
  ELSE LET index == JsRem(head + i, capacity)
           entry == Slot(index)
       IN IF InRange(entry, startTime, endTime)
          THEN RangeLoop(i + 1, startTime, endTime, Append(acc, entry))
          ELSE RangeLoop(i + 1, startTime, endTime, acc)

getRange(startTime, endTime) == RangeLoop(0, startTime, endTime, <<>>)

\* Mutant of LastIndex: the "+ capacity" that keeps the dividend non-negative is missing.
LastIndexNoWrap(count, i) == JsRem(tail - count + i, capacity)

LastIndex(count, i) == JsRem(tail - count + i + capacity, capacity)

getLast(n) ==
  LET count == MathMin(n, size)
  IN [j \in 1 .. count |-> Slot(LastIndex(count, j - 1))]

StatsInitMax == NumberMIN_VALUE

RECURSIVE StatsLoop(_, _, _, _)
StatsLoop(i, min, max, sum) ==
  IF ~(i < size) THEN [min |-> min, max |-> max, sum |-> sum]
  ELSE LET index == JsRem(head + i, capacity)
           value == heap[Slot(index)].value
       IN IF value.t = "number"
          THEN StatsLoop(i + 1, DblMin(min, Dbl(value.n)), DblMax(max, Dbl(value.n)), sum + value.n)
          ELSE StatsLoop(i + 1, min, max, sum)

StatsDivisor == size

getStats ==
  IF size = 0 THEN [count |-> 0]
  ELSE LET acc == StatsLoop(0, NumberMAX_VALUE, StatsInitMax, 0)
       IN [count  |-> size,
           min    |-> IF acc.min = NumberMAX_VALUE THEN Undefined ELSE acc.min,
           max    |-> IF acc.max = NumberMIN_VALUE THEN Undefined ELSE acc.max,
           avg    |-> [num |-> acc.sum, den |-> StatsDivisor],
           latest |-> heap[latest].value]

(***************************************************************************)
(* AdsGateway: state after construction.                                   *)
(***************************************************************************)
\* Variables a caller registers: "a" is a scalar symbol, "s" is a struct with
\* one field f; "s_f" is the id createVirtualSubVariables derives for s.f.
VarIds == {"a", "s"}
IsStruct(vid) == vid = "s"
SubId(vid) == "s_f"
AllIds == VarIds \cup {SubId(v) : v \in {w \in VarIds : IsStruct(w)}}
\* The variables callers add: the scalar is polled, the struct asks for
\* notifications (the default).
AddInputs == {[id |-> "a", useNotification |-> FALSE], [id |-> "s", useNotification |-> TRUE]}

InitGw ==
  /\ client = 0
  /\ clients = <<>>
  /\ connected = FALSE
  /\ handles = [vid \in AllIds |-> 0]
  /\ hobj = <<>>
  /\ chan = <<>>
  /\ tasks = <<>>
  /\ removing = {}
  /\ calls = 0
  /\ plcSeq = 0
  /\ delivered = [vid \in AllIds |-> <<>>]

(***************************************************************************)
(* AdsSymbolDiscovery: state after construction; the PLC's counter is      *)
(* whatever the PLC has.                                                   *)
(***************************************************************************)
InitDisc ==
  /\ plcVersion \in 0 .. 1
  /\ lastSymbolVersion = 0
  /\ isDiscovering = FALSE
  /\ discoveryTimer = FALSE
  /\ runs = <<>>
  /\ observed = FALSE
  /\ discEvents = {}

(***************************************************************************)
(* CircularBuffer: actions.                                                *)
(***************************************************************************)
QueueNames == {"variable-write", "persistence", "discovery"}

InitQueue ==
  /\ jobs = <<>>
  /\ wait = [q \in QueueNames |-> <<>>]
  /\ closing = FALSE
  /\ closedQ = {}
  /\ applied = <<>>

InitReg ==
  /\ plcSymbols \in SUBSET VarIds
  /\ autoAdd = <<>>

\* The connections, variables and topics the manager is driven with.
ConnIds == {"c1", "c2"}
MVarIds == {"a", "b"}
Topics == {"t", "u"}

\* No entry under a connection id in configs.
Absent == [enabled |-> FALSE, symbolDiscovery |-> FALSE, port |-> 0]

\* No entry under a variable id in a gateway's handle map.
NoHandle == [topic |-> "", sub |-> FALSE, no |-> 0]

\* A new AdsConnectionManager.
InitMgr ==
  /\ gws = <<>>
  /\ discs = <<>>
  /\ connections = [c \in ConnIds |-> 0]
  /\ configs = [c \in ConnIds |-> Absent]
  /\ symbolDiscoveries = [c \in ConnIds |-> 0]
  /\ variableToConnection = [v \in MVarIds |-> ""]
  /\ mtasks = <<>>
  /\ mcalls = 0

CacheKeys == {"k"}

\* A new RedisCache on an empty Redis that is up or down.
InitCache ==
  /\ redisUp \in BOOLEAN
  /\ store = [k \in CacheKeys |-> "none"]
  /\ ccalls = <<>>
  /\ hitCount = 0
  /\ missCount = 0
  /\ setCount = 0

Operations == {"read", "read:error"}
MeasuredOperations == {"read"}
Durations == {1, 2}

\* new PerformanceMonitor(maxMetricsPerOperation).
InitPerf ==
  /\ maxMetricsPerOperation \in 1 .. MaxMetrics
  /\ metrics = [o \in Operations |-> <<>>]
  /\ operationCounts = [o \in Operations |-> 0]
  /\ recorded = [o \in Operations |-> <<>>]
  /\ lastSample = [o \in Operations |-> 0]
  /\ measured = <<>>
  /\ perfNow = 0
  /\ cleanupRuns = 0

\* The components a specification does not run, at rest.
InitRest == InitMgr /\ InitCache /\ redisUp /\ InitPerf /\ maxMetricsPerOperation = 1

InitBuf ==
  /\ capacity \in 1 .. MaxCapacity
  /\ buffer = [i \in 0 .. capacity - 1 |-> 0]
  /\ head = 0
  /\ tail = 0
  /\ size = 0
  /\ heap = <<>>
  /\ sinceClear = 0
  /\ now = 0
  /\ result = None

\* The advance of tail, were it not reduced modulo the capacity.
NextTailNoWrap == tail + 1

NextTail == JsRem(tail + 1, capacity)

\* push(value): Date.now() is the current clock.
Push(value) ==
  /\ Len(heap) < MaxPush
  /\ LET entry == [timestamp |-> now, value |-> value]
         ref == Len(heap) + 1
     IN /\ heap' = Append(heap, entry)
        /\ buffer' = [buffer EXCEPT ![tail] = ref]
  /\ tail' = NextTail
  /\ IF size < capacity
     THEN size' = size + 1 /\ head' = head
     ELSE size' = size /\ head' = JsRem(head + 1, capacity)
  /\ sinceClear' = sinceClear + 1
  /\ result' = None
  /\ UNCHANGED <<capacity, now, notBufVars>>

Clear ==
  /\ size > 0
  /\ head' = 0
  /\ tail' = 0
  /\ size' = 0
  /\ sinceClear' = 0
  /\ result' = None
  /\ UNCHANGED <<capacity, buffer, heap, now, notBufVars>>

\* Time passes between calls.
Tick ==
  /\ now < MaxTime
  /\ now' = now + 1
  /\ result' = None
  /\ UNCHANGED <<capacity, buffer, head, tail, size, heap, sinceClear, notBufVars>>

bufState == <<capacity, buffer, head, tail, size, heap, sinceClear, now>>

CallLatest ==
  /\ result' = [op |-> "latest", val |-> latest]
  /\ UNCHANGED <<bufState, notBufVars>>

CallOldest ==
  /\ result' = [op |-> "oldest", val |-> oldest]
  /\ UNCHANGED <<bufState, notBufVars>>

CallAt(index) ==
  /\ result' = [op |-> "at", index |-> index, val |-> at(index)]
  /\ UNCHANGED <<bufState, notBufVars>>

CallLength ==
  /\ result' = [op |-> "length", val |-> length]
  /\ UNCHANGED <<bufState, notBufVars>>

CallGetRange(startTime, endTime) ==
  /\ result' = [op |-> "getRange", startTime |-> startTime, endTime |-> endTime,
                val |-> getRange(startTime, endTime)]
  /\ UNCHANGED <<bufState, notBufVars>>

CallGetLast(n) ==
  /\ result' = [op |-> "getLast", n |-> n, val |-> getLast(n)]
  /\ UNCHANGED <<bufState, notBufVars>>

CallGetStats ==
  /\ result' = [op |-> "getStats", val |-> getStats]
  /\ UNCHANGED <<bufState, notBufVars>>

\* The caller holds the entry that latest() / oldest() / at(i) just returned.
HoldsEntry == result.op \in {"latest", "oldest", "at"} /\ result.val # 0

\* The caller writes a field of the entry object it was handed.
MutateValue(value) ==
  /\ HoldsEntry
  /\ heap[result.val].value # value
  /\ heap' = [heap EXCEPT ![result.val].value = value]
  /\ result' = None
  /\ UNCHANGED <<capacity, buffer, head, tail, size, sinceClear, now, notBufVars>>

MutateTimestamp(ts) ==
  /\ HoldsEntry
  /\ heap[result.val].timestamp # ts
  /\ heap' = [heap EXCEPT ![result.val].timestamp = ts]
  /\ result' = None
  /\ UNCHANGED <<capacity, buffer, head, tail, size, sinceClear, now, notBufVars>>

\* Overwrite, element access and lastN: which entry is where.
NextBuf ==
  \/ \E value \in {NumVal(1), StrVal} : Push(value)
  \/ Clear
  \/ CallLatest
  \/ CallOldest
  \/ \E index \in 0 - 1 .. MaxCapacity : CallAt(index)
  \/ CallLength
  \/ \E n \in 0 .. MaxCapacity + 1 : CallGetLast(n)
  \/ \E value \in {NumVal(1), StrVal} : MutateValue(value)

InitBufSpec == InitBuf /\ InitGw /\ InitDisc /\ plcVersion = 0 /\ InitReg /\ plcSymbols = {} /\ InitQueue /\ InitRest

SpecBuf == InitBufSpec /\ [][NextBuf]_vars

\* Time range queries: entries are stamped by a clock that moves between pushes.
NextRange ==
  \/ Push(NumVal(1))
  \/ Tick
  \/ Clear
  \/ CallOldest
  \/ \E startTime \in Times : \E endTime \in Times : CallGetRange(startTime, endTime)
  \/ \E ts \in Times : MutateTimestamp(ts)

InitRangeSpec == InitBuf /\ InitGw /\ InitDisc /\ plcVersion = 0 /\ InitReg /\ plcSymbols = {} /\ InitQueue /\ InitRest

SpecRange == InitRangeSpec /\ [][NextRange]_vars

\* Statistics: values of every kind are pushed.
NextStats ==
  \/ \E value \in Values : Push(value)
  \/ Clear
  \/ CallLatest
  \/ CallGetStats
  \/ \E value \in Values : MutateValue(value)

InitStatsSpec == InitBuf /\ InitGw /\ InitDisc /\ plcVersion = 0 /\ InitReg /\ plcSymbols = {} /\ InitQueue /\ InitRest

SpecStats == InitStatsSpec /\ [][NextStats]_vars

(***************************************************************************)
(* AdsGateway: helpers.                                                    *)
(***************************************************************************)
IsOpen(c) == c # 0 /\ clients[c] = "open"

\* An addVariable call that returned or threw.
Done == [pc |-> "done"]

\* An AdsHandle as addVariable creates it (ads-gateway.ts:123-128).
NewHandle(vid, useNotification, value) ==
  [vid |-> vid, virtual |-> FALSE, useNotification |-> useNotification,
   notificationHandle |-> 0, subActive |-> FALSE, pollTimer |-> "none",
   value |-> value, error |-> FALSE]

\* An AdsHandle as createVirtualSubVariables creates it (ads-gateway.ts:320-324).
NewSubHandle(vid, value) ==
  [vid |-> vid, virtual |-> TRUE, useNotification |-> FALSE,
   notificationHandle |-> 0, subActive |-> FALSE, pollTimer |-> "none",
   value |-> value, error |-> FALSE]

\* this.emit('variable-changed', variable): listeners run synchronously, so
\* the sample is received at once.
EmitChanged(dl, vid, sample) == [dl EXCEPT ![vid] = Append(@, sample)]

\* createVirtualSubVariables(parent, structValue) for the one field of the
\* struct; st = [handles, hobj, delivered].  The field's value changes with
\* every sample.
createVirtualSubVariables(st, parentVid, sample) ==
  LET subVarId == SubId(parentVid)
  IN IF st.handles[subVarId] # 0
     THEN LET h == st.handles[subVarId]
          IN IF st.hobj[h].value # sample
             THEN [st EXCEPT !.hobj = [@ EXCEPT ![h].value = sample],
                             !.delivered = EmitChanged(@, subVarId, sample)]
             ELSE st
     ELSE [st EXCEPT !.hobj = Append(@, NewSubHandle(subVarId, sample)),
                     !.handles = [@ EXCEPT ![subVarId] = Len(st.hobj) + 1]]

\* The body shared by the notification callback (178-199) and the poll
\* closure (217-234) once a value is there.
ValueArrived(st, h, sample) ==
  LET st1 == [st EXCEPT !.hobj = [@ EXCEPT ![h].value = sample, ![h].error = FALSE]]
      st2 == IF IsStruct(st.hobj[h].vid)
             THEN createVirtualSubVariables(st1, st.hobj[h].vid, sample)
             ELSE st1
  IN [st2 EXCEPT !.delivered = EmitChanged(@, st.hobj[h].vid, sample)]

\* The catch of the poll closure, were it to drop the Variable's value too.
PollFailedDropsValue(st, h) ==
  [st EXCEPT !.hobj = [@ EXCEPT ![h].error = TRUE, ![h].value = 0]]

\* The catch of the poll closure (235-242).
PollFailed(st, h) == [st EXCEPT !.hobj = [@ EXCEPT ![h].error = TRUE]]

\* Does a read issued now reach the PLC?  readValue throws when the gateway is
\* not connected or has no client; a Client that is not open rejects.
CanRead == connected /\ IsOpen(client)

\* One run of poll() up to its await: st = [hobj, chan, plcSeq].
PollIssue(st, h) ==
  IF CanRead
  THEN [st EXCEPT !.chan = [@ EXCEPT ![client] =
                     Append(@, [kind |-> "read", h |-> h, sample |-> st.plcSeq + 1])],
                  !.plcSeq = @ + 1]
  ELSE [st EXCEPT !.hobj = [@ EXCEPT ![h].error = TRUE]]

\* setInterval(poll, ...) followed by poll() (245-246).
StartPollTimer(st, h) ==
  PollIssue([st EXCEPT !.hobj = [@ EXCEPT ![h].pollTimer = "active"]], h)

CanSample == plcSeq < MaxSamples

(***************************************************************************)
(* AdsGateway: actions.  Every await of the code ends an action.           *)
(***************************************************************************)
\* connectConnection(id) -> gateway.connect() up to `await client.connect()`.
Connect ==
  /\ calls < MaxCalls
  /\ calls' = calls + 1
  /\ clients' = Append(clients, "connecting")
  /\ chan' = Append(chan, <<>>)
  /\ client' = Len(clients) + 1
  /\ UNCHANGED <<connected, handles, hobj, tasks, removing, plcSeq, delivered, notGwVars>>

\* connect(): the awaited client.connect() resolved.
ConnectSucceed(c) ==
  /\ clients[c] = "connecting"
  /\ clients' = [clients EXCEPT ![c] = "open"]
  /\ connected' = TRUE
  /\ UNCHANGED <<client, handles, hobj, chan, tasks, removing, calls, plcSeq, delivered, notGwVars>>

\* connect(): the awaited client.connect() rejected.
ConnectFail(c) ==
  /\ clients[c] = "connecting"
  /\ clients' = [clients EXCEPT ![c] = "failed"]
  /\ connected' = FALSE
  /\ UNCHANGED <<client, handles, hobj, chan, tasks, removing, calls, plcSeq, delivered, notGwVars>>

ClearedTimers(registered) ==
  [h \in DOMAIN hobj |->
     IF h \in registered /\ hobj[h].pollTimer = "active"
     THEN [hobj[h] EXCEPT !.pollTimer = "cleared"]
     ELSE hobj[h]]

\* disconnectConnection(id) -> gateway.disconnect().  client.disconnect() ends
\* an open session; it is taken to leave a connect in progress alone.
Disconnect ==
  /\ hobj' = ClearedTimers({handles[vid] : vid \in AllIds} \ {0})
  /\ IF client # 0
     THEN /\ clients' = [clients EXCEPT ![client] = IF @ = "open" THEN "closed" ELSE @]
          /\ connected' = FALSE
     ELSE UNCHANGED <<clients, connected>>
  /\ UNCHANGED <<client, handles, chan, tasks, removing, calls, plcSeq, delivered, notGwVars>>

\* addVariable(variable) up to the await of the initial read.  When the
\* gateway is not connected, or the current client is not open, the call
\* throws and nothing has changed.
AddVariableStart(vid, useNotification) ==
  /\ calls < MaxCalls
  /\ calls' = calls + 1
  /\ CanRead
  /\ tasks' = Append(tasks, [pc |-> "read", vid |-> vid, useNotification |-> useNotification,
                             client |-> client, h |-> 0])
  /\ UNCHANGED <<client, clients, connected, handles, hobj, chan, removing, plcSeq, delivered, notGwVars>>

\* addVariable: the initial read rejected; the error is re-thrown.
AddVariableReadFail(t) ==
  /\ tasks[t].pc = "read"
  /\ tasks' = [tasks EXCEPT ![t] = Done]
  /\ UNCHANGED <<client, clients, connected, handles, hobj, chan, removing, calls, plcSeq, delivered, notGwVars>>

\* addVariable: the initial read resolved; sub-variables, the handle, and
\* startPolling up to its await (or to its end when it polls).
AddVariableReadOk(t) ==
  /\ tasks[t].pc = "read"
  /\ IsOpen(tasks[t].client)
  /\ LET vid == tasks[t].vid
         st0 == [handles |-> handles, hobj |-> hobj, delivered |-> delivered]
         st1 == IF IsStruct(vid) THEN createVirtualSubVariables(st0, vid, plcSeq) ELSE st0
         h == Len(st1.hobj) + 1
         hobj2 == Append(st1.hobj, NewHandle(vid, tasks[t].useNotification, plcSeq))
     IN /\ handles' = [st1.handles EXCEPT ![vid] = h]
        /\ delivered' = st1.delivered
        /\ IF tasks[t].useNotification /\ client # 0
           THEN /\ tasks' = [tasks EXCEPT ![t].pc = "subscribe", ![t].client = client, ![t].h = h]
                /\ hobj' = hobj2
                /\ UNCHANGED <<chan, plcSeq>>
           ELSE /\ CanRead => CanSample
                /\ LET st == StartPollTimer([hobj |-> hobj2, chan |-> chan, plcSeq |-> plcSeq], h)
                   IN /\ hobj' = st.hobj
                      /\ chan' = st.chan
                      /\ plcSeq' = st.plcSeq
                /\ tasks' = [tasks EXCEPT ![t] = Done]
  /\ UNCHANGED <<client, clients, connected, removing, calls, notGwVars>>

\* Mutant of AddVariableSubscribeOk: the `return` after a successful subscribe
\* is missing, so startPolling goes on to set up the poll timer as well.
AddVariableSubscribeOkNoReturn(t) ==
  /\ tasks[t].pc = "subscribe"
  /\ IsOpen(tasks[t].client)
  /\ CanRead => CanSample
  /\ LET st == StartPollTimer([hobj |-> [hobj EXCEPT ![tasks[t].h].notificationHandle = tasks[t].client,
                                                      ![tasks[t].h].subActive = TRUE],
                               chan |-> chan, plcSeq |-> plcSeq], tasks[t].h)
     IN /\ hobj' = st.hobj
        /\ chan' = st.chan
        /\ plcSeq' = st.plcSeq
  /\ tasks' = [tasks EXCEPT ![t] = Done]
  /\ UNCHANGED <<client, clients, connected, handles, removing, calls, delivered, notGwVars>>

\* startPolling: client.subscribe resolved.
AddVariableSubscribeOk(t) ==
  /\ tasks[t].pc = "subscribe"
  /\ IsOpen(tasks[t].client)
  /\ hobj' = [hobj EXCEPT ![tasks[t].h].notificationHandle = tasks[t].client,
                          ![tasks[t].h].subActive = TRUE]
  /\ tasks' = [tasks EXCEPT ![t] = Done]
  /\ UNCHANGED <<client, clients, connected, handles, chan, removing, calls, plcSeq, delivered, notGwVars>>

\* startPolling: client.subscribe rejected; fall back to polling.
AddVariableSubscribeFail(t) ==
  /\ tasks[t].pc = "subscribe"
  /\ CanRead => CanSample
  /\ LET st == StartPollTimer([hobj |-> hobj, chan |-> chan, plcSeq |-> plcSeq], tasks[t].h)
     IN /\ hobj' = st.hobj
        /\ chan' = st.chan
        /\ plcSeq' = st.plcSeq
  /\ tasks' = [tasks EXCEPT ![t] = Done]
  /\ UNCHANGED <<client, clients, connected, handles, removing, calls, delivered, notGwVars>>

\* A poll timer fires: poll() up to its await.
PollTick(h) ==
  /\ hobj[h].pollTimer = "active"
  /\ CanRead => CanSample
  /\ LET st == PollIssue([hobj |-> hobj, chan |-> chan, plcSeq |-> plcSeq], h)
     IN /\ hobj' = st.hobj
        /\ chan' = st.chan
        /\ plcSeq' = st.plcSeq
  /\ UNCHANGED <<client, clients, connected, handles, tasks, removing, calls, delivered, notGwVars>>

\* The PLC sends a device notification for a live subscription.
Notify(h) ==
  /\ hobj[h].subActive
  /\ IsOpen(hobj[h].notificationHandle)
  /\ CanSample
  /\ chan' = [chan EXCEPT ![hobj[h].notificationHandle] =
                Append(@, [kind |-> "notification", h |-> h, sample |-> plcSeq + 1])]
  /\ plcSeq' = plcSeq + 1
  /\ UNCHANGED <<client, clients, connected, handles, hobj, tasks, removing, calls, delivered, notGwVars>>

\* The next message of a Client's connection arrives: a read resolves (or
\* rejects, when the session is gone), or the notification callback runs.
Deliver(c) ==
  /\ chan[c] # <<>>
  /\ LET m == Head(chan[c])
         st0 == [handles |-> handles, hobj |-> hobj, delivered |-> delivered]
         st == IF IsOpen(c)
               THEN ValueArrived(st0, m.h, m.sample)
               ELSE IF m.kind = "read" THEN PollFailed(st0, m.h) ELSE st0
     IN /\ handles' = st.handles
        /\ hobj' = st.hobj
        /\ delivered' = st.delivered
  /\ chan' = [chan EXCEPT ![c] = Tail(@)]
  /\ UNCHANGED <<client, clients, connected, tasks, removing, calls, plcSeq, notGwVars>>

\* A read that reached the PLC is answered with an error (bad symbol, decode).
DeliverReadError(c) ==
  /\ chan[c] # <<>>
  /\ Head(chan[c]).kind = "read"
  /\ hobj' = PollFailed([hobj |-> hobj], Head(chan[c]).h).hobj
  /\ chan' = [chan EXCEPT ![c] = Tail(@)]
  /\ UNCHANGED <<client, clients, connected, handles, tasks, removing, calls, plcSeq, delivered, notGwVars>>

\* removeVariable(variableId) up to `await client.unsubscribe`, or to its end
\* when there is nothing to unsubscribe.
RemoveVariable(vid) ==
  /\ calls < MaxCalls
  /\ calls' = calls + 1
  /\ LET h == handles[vid]
     IN IF h = 0
        THEN UNCHANGED <<handles, hobj, removing>>
        ELSE /\ hobj' = [hobj EXCEPT ![h].pollTimer = IF @ = "active" THEN "cleared" ELSE @]
             /\ IF hobj[h].notificationHandle # 0 /\ client # 0
                THEN /\ removing' = removing \cup {[vid |-> vid, h |-> h]}
                     /\ UNCHANGED handles
                ELSE /\ handles' = [handles EXCEPT ![vid] = 0]
                     /\ UNCHANGED removing
  /\ UNCHANGED <<client, clients, connected, chan, tasks, plcSeq, delivered, notGwVars>>

\* removeVariable: unsubscribe settled (an error is only logged); the entry
\* under the id is deleted.
RemoveVariableFinish(r) ==
  /\ r \in removing
  /\ removing' = removing \ {r}
  /\ hobj' = [hobj EXCEPT ![r.h].subActive = FALSE]
  /\ handles' = [handles EXCEPT ![r.vid] = 0]
  /\ UNCHANGED <<client, clients, connected, chan, tasks, calls, plcSeq, delivered, notGwVars>>

NextGw ==
  \/ Connect
  \/ \E c \in DOMAIN clients : ConnectSucceed(c)
  \/ \E c \in DOMAIN clients : ConnectFail(c)
  \/ Disconnect
  \/ \E v \in AddInputs : AddVariableStart(v.id, v.useNotification)
  \/ \E t \in DOMAIN tasks : AddVariableReadFail(t)
  \/ \E t \in DOMAIN tasks : AddVariableReadOk(t)
  \/ \E t \in DOMAIN tasks : AddVariableSubscribeOk(t)
  \/ \E t \in DOMAIN tasks : AddVariableSubscribeFail(t)
  \/ \E h \in DOMAIN hobj : PollTick(h)
  \/ \E h \in DOMAIN hobj : Notify(h)
  \/ \E c \in DOMAIN chan : Deliver(c)
  \/ \E c \in DOMAIN chan : DeliverReadError(c)
  \/ \E vid \in AllIds : RemoveVariable(vid)
  \/ \E r \in removing : RemoveVariableFinish(r)

\* The link to the PLC drops: the session of an open Client is gone.  The
\* gateway registers no listener on its Client, so nothing runs.
LinkDrop(c) ==
  /\ clients[c] = "open"
  /\ clients' = [clients EXCEPT ![c] = "lost"]
  /\ UNCHANGED <<client, connected, handles, hobj, chan, tasks, removing, calls, plcSeq, delivered, notGwVars>>

\* The timers AdsConnectionManager holds for a connection: it has no timer
\* field, and its 'error' and 'variable-error' handlers only forward.
ManagerTimers == {}

\* The gateway on a link that can drop.
NextLink ==
  \/ NextGw
  \/ \E c \in DOMAIN clients : LinkDrop(c)

InitLinkSpec == InitBuf /\ capacity = 1 /\ InitGw /\ InitDisc /\ plcVersion = 0 /\ InitReg /\ plcSymbols = {} /\ InitQueue /\ InitRest

SpecLink == InitLinkSpec /\ [][NextLink]_vars

InitGwSpec == InitBuf /\ capacity = 1 /\ InitGw /\ InitDisc /\ plcVersion = 0 /\ InitReg /\ plcSymbols = {} /\ InitQueue /\ InitRest

SpecGw == InitGwSpec /\ [][NextGw]_vars

(***************************************************************************)
(* AdsConnectionManager: the variables-discovered handler, which registers *)
(* every discovered variable with the gateway.  Discovered variables carry *)
(* no useNotification field, so the gateway subscribes for them.           *)
(***************************************************************************)
\* data.variables of one event: symbolsToVariables of the symbols just
\* enumerated, in table order.
SymbolSeq(S) == SelectSeq(<<"a", "s">>, LAMBDA v : v \in S)

\* A handler run that is through its loop.
RunFinished(a) == autoAdd[a].cur = 0 /\ autoAdd[a].todo = <<>>

\* One iteration of `for (const variable of data.variables)`, up to the await
\* inside gateway.addVariable.  When the gateway is not connected every
\* remaining addVariable throws at once and is only logged.
AutoAddIteration(a, todo) ==
  IF todo # <<>> /\ CanRead
  THEN /\ tasks' = Append(tasks, [pc |-> "read", vid |-> Head(todo), useNotification |-> TRUE,
                                  client |-> client, h |-> 0])
       /\ autoAdd' = [autoAdd EXCEPT ![a].todo = Tail(todo), ![a].cur = Len(tasks) + 1]
  ELSE /\ autoAdd' = [autoAdd EXCEPT ![a].todo = <<>>, ![a].cur = 0]
       /\ UNCHANGED tasks

\* An OnlineChange on the PLC that changes the symbol table.
PlcSymbolsChange(S) ==
  /\ S # plcSymbols
  /\ plcVersion < MaxVersion
  /\ plcVersion' = plcVersion + 1
  /\ plcSymbols' = S
  /\ UNCHANGED <<autoAdd, gwVars, bufVars, lastSymbolVersion, isDiscovering, discoveryTimer,
                 runs, observed, discEvents, queueVars, mgrVars, cacheVars, perfVars>>

\* discovery emits 'variables-discovered' for the table it just enumerated;
\* the handler starts and runs into its first addVariable.
VariablesDiscovered ==
  /\ Len(autoAdd) < MaxDiscoveries
  /\ LET a == Len(autoAdd) + 1
         run == [symbols |-> plcSymbols, todo |-> SymbolSeq(plcSymbols), cur |-> 0]
     IN IF run.todo # <<>> /\ CanRead
        THEN /\ tasks' = Append(tasks, [pc |-> "read", vid |-> Head(run.todo), useNotification |-> TRUE,
                                        client |-> client, h |-> 0])
             /\ autoAdd' = Append(autoAdd, [run EXCEPT !.todo = Tail(run.todo), !.cur = Len(tasks) + 1])
        ELSE /\ autoAdd' = Append(autoAdd, [run EXCEPT !.todo = <<>>])
             /\ UNCHANGED tasks
  /\ UNCHANGED <<plcSymbols, client, clients, connected, handles, hobj, chan, removing, calls,
                 plcSeq, delivered, bufVars, discVars, queueVars, mgrVars, cacheVars, perfVars>>

\* The awaited addVariable returned or threw: variableToConnection is set (or
\* the error logged) and the loop goes on.
AutoAddNext(a) ==
  /\ autoAdd[a].cur # 0
  /\ tasks[autoAdd[a].cur].pc = "done"
  /\ AutoAddIteration(a, autoAdd[a].todo)
  /\ UNCHANGED <<plcSymbols, client, clients, connected, handles, hobj, chan, removing, calls,
                 plcSeq, delivered, bufVars, discVars, queueVars, mgrVars, cacheVars, perfVars>>

\* One connection with symbol discovery: the gateway as the handler drives it.
NextReg ==
  \/ clients = <<>> /\ Connect
  \/ \E c \in DOMAIN clients : ConnectSucceed(c)
  \/ \E S \in SUBSET VarIds : PlcSymbolsChange(S)
  \/ VariablesDiscovered
  \/ \E a \in DOMAIN autoAdd : AutoAddNext(a)
  \/ \E t \in DOMAIN tasks : AddVariableReadFail(t)
  \/ \E t \in DOMAIN tasks : AddVariableReadOk(t)
  \/ \E t \in DOMAIN tasks : AddVariableSubscribeOk(t)
  \/ \E t \in DOMAIN tasks : AddVariableSubscribeFail(t)
  \/ \E h \in DOMAIN hobj : PollTick(h)
  \/ \E h \in DOMAIN hobj : Notify(h)
  \/ \E c \in DOMAIN chan : Deliver(c)

InitRegSpec == InitBuf /\ capacity = 1 /\ InitGw /\ InitDisc /\ plcVersion = 0 /\ InitReg /\ InitQueue /\ InitRest

SpecReg == InitRegSpec /\ [][NextReg]_vars

(***************************************************************************)
(* EventQueueManager: one Bull queue per job kind, each with the processor *)
(* registered by setupQueueHandlers (concurrency 1) and the job options of *)
(* the constructor.  Bull itself is the environment: a queue hands its     *)
(* waiting jobs to its own processor in order, retries a failed attempt    *)
(* after the configured backoff and emits 'failed' for every failed        *)
(* attempt.                                                                *)
(***************************************************************************)
\* defaultJobOptions.priority of each queue.
Priority(q) == IF q = "variable-write" THEN 1 ELSE IF q = "persistence" THEN 2 ELSE 3

\* defaultJobOptions.attempts
DefaultAttempts == 3

\* defaultJobOptions.backoff.delay, in ms
BackoffDelay == 1000

RECURSIVE Pow2(_)
Pow2(n) == IF n = 0 THEN 1 ELSE 2 * Pow2(n - 1)

\* backoff {type: 'exponential', delay}: the delay Bull puts before the next
\* attempt of a job that has failed attemptsMade times.
Backoff(attemptsMade) == (Pow2(attemptsMade) - 1) * BackoffDelay

Active(q) == {j \in DOMAIN jobs : jobs[j].queue = q /\ jobs[j].state = "active"}
Pending(q) == {j \in DOMAIN jobs : jobs[j].queue = q /\ jobs[j].state \in {"waiting", "delayed"}}

\* The workers of the variable-write and the persistence queue are both at
\* work on a job.
WorkersBusy == Active("variable-write") # {} /\ Active("persistence") # {}

\* queue.add(job, options): the job takes the queue's default options unless
\* options.attempts overrides.  busy records whether the workers were busy
\* when the job was added.
AddJob(q, attempts) ==
  /\ ~closing
  /\ jobs' = Append(jobs, [queue |-> q, priority |-> Priority(q), state |-> "waiting",
                            attempts |-> attempts, attemptsMade |-> 0, delay |-> 0,
                            threw |-> FALSE, failedEvents |-> 0, write |-> "none",
                            busy |-> WorkersBusy])
  /\ wait' = [wait EXCEPT ![q] = Append(@, Len(jobs) + 1)]
  /\ UNCHANGED <<closing, closedQ, applied, notQueueVars>>

\* addVariableWrite / addPersistence / addDiscovery (job, options)
Enqueue(q, attempts) ==
  /\ Len(jobs) < MaxJobs
  /\ AddJob(q, attempts)

\* The queue's processor takes its next waiting job and runs to its return:
\* it emits the 'queue.<kind>' event on the event bus and returns success.
\* threw: a listener of the event threw inside emit.  w: a listener of
\* 'queue.variable-write' called gateway.writeValue (361-371), which is now
\* awaiting client.writeValue ("pending"), or nothing wrote ("none").
Process(q, threw, w) ==
  /\ ~closing
  /\ wait[q] # <<>>
  /\ Active(q) = {}
  /\ (w = "pending") => (q = "variable-write" /\ ~threw)
  /\ LET j == Head(wait[q])
     IN /\ jobs' = [jobs EXCEPT ![j].state = "active", ![j].threw = threw,
                                 ![j].write = IF @ = "none" THEN w ELSE @]
        /\ applied' = IF q = "variable-write" /\ ~threw THEN Append(applied, j) ELSE applied
  /\ wait' = [wait EXCEPT ![q] = Tail(@)]
  /\ UNCHANGED <<closing, closedQ, notQueueVars>>

\* Bull settles the attempt.  Returned: the job is completed.  Threw: the
\* 'failed' event goes out, and the job is retried after its backoff while
\* attempts are left.
Settle(j) ==
  /\ jobs[j].state = "active"
  /\ IF ~jobs[j].threw
     THEN jobs' = [jobs EXCEPT ![j].state = "completed"]
     ELSE LET made == jobs[j].attemptsMade + 1
          IN jobs' = [jobs EXCEPT ![j].attemptsMade = made,
                                  ![j].failedEvents = @ + 1,
                                  ![j].state = IF made < jobs[j].attempts THEN "delayed" ELSE "failed",
                                  ![j].delay = IF made < jobs[j].attempts THEN Backoff(made) ELSE @]
  /\ UNCHANGED <<wait, closing, closedQ, applied, notQueueVars>>

\* The backoff delay of a retried job is over: it waits again.
DelayExpires(j) ==
  /\ jobs[j].state = "delayed"
  /\ jobs' = [jobs EXCEPT ![j].state = "waiting"]
  /\ wait' = [wait EXCEPT ![jobs[j].queue] = Append(@, j)]
  /\ UNCHANGED <<closing, closedQ, applied, notQueueVars>>

\* AdsGateway.writeValue: the awaited client.writeValue resolved.
WriteOk(j) ==
  /\ jobs[j].write = "pending"
  /\ jobs' = [jobs EXCEPT ![j].write = "ok"]
  /\ UNCHANGED <<wait, closing, closedQ, applied, notQueueVars>>

\* AdsGateway.writeValue: the awaited client.writeValue rejected.
WriteFail(j) ==
  /\ jobs[j].write = "pending"
  /\ jobs' = [jobs EXCEPT ![j].write = "failed"]
  /\ UNCHANGED <<wait, closing, closedQ, applied, notQueueVars>>

\* close(): every queue's close() is called at once.
Close ==
  /\ ~closing
  /\ closing' = TRUE
  /\ UNCHANGED <<jobs, wait, closedQ, applied, notQueueVars>>

\* A queue's close() resolves: it takes no further job and has waited for its
\* active one.
CloseDone(q) ==
  /\ closing
  /\ q \notin closedQ
  /\ Active(q) = {}
  /\ closedQ' = closedQ \cup {q}
  /\ UNCHANGED <<jobs, wait, closing, applied, notQueueVars>>

NextQueue ==
  \/ \E q \in QueueNames : Enqueue(q, DefaultAttempts)
  \/ \E q \in QueueNames : \E threw \in BOOLEAN : \E w \in {"none", "pending"} : Process(q, threw, w)
  \/ \E j \in DOMAIN jobs : Settle(j)
  \/ \E j \in DOMAIN jobs : DelayExpires(j)
  \/ \E j \in DOMAIN jobs : WriteOk(j)
  \/ \E j \in DOMAIN jobs : WriteFail(j)
  \/ Close
  \/ \E q \in QueueNames : CloseDone(q)

InitQueueSpec == InitBuf /\ capacity = 1 /\ InitGw /\ InitDisc /\ plcVersion = 0 /\ InitReg /\ plcSymbols = {} /\ InitQueue /\ InitRest

SpecQueue == InitQueueSpec /\ [][NextQueue]_vars

\* One job with its own attempts option, failing or not.
NextRetry ==
  \/ jobs = <<>> /\ \E n \in 1 .. MaxAttempts : Enqueue("variable-write", n)
  \/ \E threw \in BOOLEAN : Process("variable-write", threw, "none")
  \/ \E j \in DOMAIN jobs : Settle(j)
  \/ \E j \in DOMAIN jobs : DelayExpires(j)

\* Variable-write and persistence jobs whose processors never fail.
NextPrio ==
  \/ \E q \in {"variable-write", "persistence"} :
        Len(jobs) < MaxPrioJobs /\ AddJob(q, DefaultAttempts)
  \/ \E q \in {"variable-write", "persistence"} : Process(q, FALSE, "none")
  \/ \E j \in DOMAIN jobs : Settle(j)

InitPrioSpec == InitBuf /\ capacity = 1 /\ InitGw /\ InitDisc /\ plcVersion = 0 /\ InitReg /\ plcSymbols = {} /\ InitQueue /\ InitRest

SpecPrio == InitPrioSpec /\ [][NextPrio]_vars

InitRetrySpec == InitBuf /\ capacity = 1 /\ InitGw /\ InitDisc /\ plcVersion = 0 /\ InitReg /\ plcSymbols = {} /\ InitQueue /\ InitRest

SpecRetry == InitRetrySpec /\ [][NextRetry]_vars

(***************************************************************************)
(* AdsSymbolDiscovery: actions.  autoDiscovery and autoAddVariables are    *)
(* on.                                                                     *)
(***************************************************************************)
\* Mutant of VersionChanged: the comparison is gone, every check enumerates.
VersionChangedAlways(currentVersion, last) == TRUE

\* currentVersion !== this.lastSymbolVersion
VersionChanged(currentVersion, last) == currentVersion # last

\* if (this.isDiscovering) return;
Busy == isDiscovering

\* The finally block of checkForChanges, were it to leave the flag as it is.
FinallyIsDiscoveringKept == isDiscovering

\* finally { this.isDiscovering = false }
FinallyIsDiscovering == FALSE

\* this.emit(type, ...) by run r.
Emitted(r, types) ==
  {[type |-> ty, run |-> r, src |-> runs[r].src, same |-> runs[r].same] : ty \in types}

\* checkForChanges() up to `await this.readSymbolVersion()`.
checkForChanges ==
  IF Busy
  THEN UNCHANGED <<isDiscovering, runs>>
  ELSE /\ Len(runs) < MaxRuns
       /\ isDiscovering' = TRUE
       /\ runs' = Append(runs, [src |-> "tick", pc |-> "readVersion", same |-> FALSE,
                             symbols |-> "none"])

\* start() -> startDiscoveryTimer(): (re)arm the timer and check at once.
Start ==
  /\ discoveryTimer' = TRUE
  /\ checkForChanges
  /\ UNCHANGED <<plcVersion, lastSymbolVersion, observed, discEvents, notDiscVars>>

\* stop()
Stop ==
  /\ discoveryTimer
  /\ discoveryTimer' = FALSE
  /\ UNCHANGED <<plcVersion, lastSymbolVersion, isDiscovering, runs, observed, discEvents, notDiscVars>>

\* The interval timer fires.
TimerTick ==
  /\ discoveryTimer
  /\ checkForChanges
  /\ UNCHANGED <<plcVersion, lastSymbolVersion, discoveryTimer, observed, discEvents, notDiscVars>>

\* checkForChanges: the counter was read.  Unchanged: finally.  Changed:
\* record it and go on to discoverSymbols() up to `await getSymbols()`.
ReadVersionOk(r) ==
  /\ runs[r].pc = "readVersion"
  /\ observed' = TRUE
  /\ IF VersionChanged(plcVersion, lastSymbolVersion)
     THEN /\ lastSymbolVersion' = plcVersion
          /\ runs' = [runs EXCEPT ![r].pc = "getSymbols",
                                  ![r].same = (plcVersion = lastSymbolVersion)]
          /\ UNCHANGED isDiscovering
     ELSE /\ runs' = [runs EXCEPT ![r].pc = "done", ![r].same = (plcVersion = lastSymbolVersion)]
          /\ isDiscovering' = FinallyIsDiscovering
          /\ UNCHANGED lastSymbolVersion
  /\ UNCHANGED <<plcVersion, discoveryTimer, discEvents, notDiscVars>>

\* checkForChanges: reading the counter failed; catch and finally.
ReadVersionFail(r) ==
  /\ runs[r].pc = "readVersion"
  /\ runs' = [runs EXCEPT ![r].pc = "done"]
  /\ discEvents' = discEvents \cup Emitted(r, {"discovery-error"})
  /\ isDiscovering' = FinallyIsDiscovering
  /\ UNCHANGED <<plcVersion, lastSymbolVersion, discoveryTimer, observed, notDiscVars>>

\* triggerSymbolDiscovery(id) -> triggerDiscovery() -> discoverSymbols() up to
\* `await getSymbols()`.
TriggerDiscovery ==
  /\ Len(runs) < MaxRuns
  /\ runs' = Append(runs, [src |-> "manual", pc |-> "getSymbols",
                           same |-> (observed /\ plcVersion = lastSymbolVersion),
                           symbols |-> "none"])
  /\ UNCHANGED <<plcVersion, lastSymbolVersion, isDiscovering, discoveryTimer, observed, discEvents, notDiscVars>>

\* discoverSymbols: the symbol table arrived; emit, and for a check also
\* online-change-detected and finally.
GetSymbolsOk(r) ==
  /\ runs[r].pc = "getSymbols"
  /\ runs' = [runs EXCEPT ![r].pc = "done", ![r].symbols = "read"]
  /\ IF runs[r].src = "tick"
     THEN /\ discEvents' = discEvents \cup
               Emitted(r, {"symbols-discovered", "variables-discovered", "online-change-detected"})
          /\ isDiscovering' = FinallyIsDiscovering
     ELSE /\ discEvents' = discEvents \cup Emitted(r, {"symbols-discovered", "variables-discovered"})
          /\ UNCHANGED isDiscovering
  /\ UNCHANGED <<plcVersion, lastSymbolVersion, discoveryTimer, observed, notDiscVars>>

\* discoverSymbols: getSymbols failed and the error is re-thrown; a check
\* catches it, emits discovery-error and runs finally.
GetSymbolsFail(r) ==
  /\ runs[r].pc = "getSymbols"
  /\ runs' = [runs EXCEPT ![r].pc = "done", ![r].symbols = "failed"]
  /\ IF runs[r].src = "tick"
     THEN /\ discEvents' = discEvents \cup Emitted(r, {"discovery-error"})
          /\ isDiscovering' = FinallyIsDiscovering
     ELSE UNCHANGED <<discEvents, isDiscovering>>
  /\ UNCHANGED <<plcVersion, lastSymbolVersion, discoveryTimer, observed, notDiscVars>>

\* An OnlineChange on the PLC.
PlcOnlineChange ==
  /\ plcVersion < MaxVersion
  /\ plcVersion' = plcVersion + 1
  /\ UNCHANGED <<lastSymbolVersion, isDiscovering, discoveryTimer, runs, observed, discEvents, notDiscVars>>

NextDisc ==
  \/ Start
  \/ Stop
  \/ TimerTick
  \/ \E r \in DOMAIN runs : ReadVersionOk(r)
  \/ \E r \in DOMAIN runs : ReadVersionFail(r)
  \/ TriggerDiscovery
  \/ \E r \in DOMAIN runs : GetSymbolsOk(r)
  \/ \E r \in DOMAIN runs : GetSymbolsFail(r)
  \/ PlcOnlineChange

InitDiscSpec == InitBuf /\ capacity = 1 /\ InitGw /\ InitDisc /\ InitReg /\ plcSymbols = {} /\ InitQueue /\ InitRest

SpecDisc == InitDiscSpec /\ [][NextDisc]_vars

(***************************************************************************)
(* AdsConnectionManager over several connections                           *)
(* (src/src/ads-connection-manager.ts).  A gateway is kept as what the     *)
(* manager sees of it: its connected flag, the state of its current Client *)
(* and its handle map.  A continuation that follows an await of a call     *)
(* that itself awaited nothing runs as a microtask, before any timer or    *)
(* I/O callback, and is part of the same action.                           *)
(***************************************************************************)
\* The configs connections are added with, and the delta of updateConnection.
ConfigInputs == [enabled : BOOLEAN, symbolDiscovery : BOOLEAN, port : {1}]
Deltas == {[port |-> 2]}

\* The Variables passed to addVariable.
MVarInputs ==
  {[id |-> "a", topic |-> "t", useNotification |-> FALSE],
   [id |-> "b", topic |-> "t", useNotification |-> TRUE],
   [id |-> "b", topic |-> "u", useNotification |-> FALSE]}

\* A call that returned.
MDone == [op |-> "done"]

\* An addVariable call that threw: no gateway under the id ("connection"),
\* gateway not connected ("connected"), the initial read rejected ("read").
Threw(why) == [op |-> "threw", why |-> why]

\* new AdsGateway(...) for connection id.
GwNew(id) ==
  [conn |-> id, connected |-> FALSE, session |-> "none",
   handles |-> [v \in MVarIds |-> NoHandle]]

\* AdsGateway.connect() up to `await this.client.connect()`.
GwConnecting(gw) == [gw EXCEPT !.session = "connecting"]

\* AdsGateway.disconnect(): with a Client, client.disconnect() is called and
\* connected is cleared; a connect in progress is left alone.
GwDisconnected(gw) ==
  IF gw.session = "none"
  THEN gw
  ELSE [gw EXCEPT !.connected = FALSE,
                  !.session = IF @ = "open" THEN "closed" ELSE @]

\* isConnectionConnected(id) in the state st.
isConnectionConnected(st, id) ==
  st.connections[id] # 0 /\ st.gws[st.connections[id]].connected

\* { ...existingConfig, ...config }
Merged(existingConfig, delta) == [existingConfig EXCEPT !.port = delta.port]

\* The manager's maps and objects as one record.
MgrState ==
  [gws |-> gws, discs |-> discs, connections |-> connections,
   configs |-> configs, symbolDiscoveries |-> symbolDiscoveries]

SetMgr(st) ==
  /\ gws' = st.gws
  /\ discs' = st.discs
  /\ connections' = st.connections
  /\ configs' = st.configs
  /\ symbolDiscoveries' = st.symbolDiscoveries

\* addConnection(config) from its start to `await this.connectConnection`:
\* the config is stored, a gateway is created and registered, a discovery
\* object is created and registered when the config has symbolDiscovery, and
\* an enabled connection starts to connect.
addConnection(st, id, config) ==
  LET g == Len(st.gws) + 1
      d == Len(st.discs) + 1
      gw == IF config.enabled THEN GwConnecting(GwNew(id)) ELSE GwNew(id)
      st1 == [st EXCEPT !.configs = [@ EXCEPT ![id] = config],
                        !.gws = Append(@, gw),
                        !.connections = [@ EXCEPT ![id] = g]]
  IN IF config.symbolDiscovery
     THEN [st1 EXCEPT !.discs = Append(@, [conn |-> id, timer |-> FALSE]),
                      !.symbolDiscoveries = [@ EXCEPT ![id] = d]]
     ELSE st1

\* getVariable(variableId) finds a Variable: the id is mapped to a connection
\* whose gateway has a handle for it.
getVariable(st, map, vid) ==
  /\ map[vid] # ""
  /\ st.connections[map[vid]] # 0
  /\ st.gws[st.connections[map[vid]]].handles[vid] # NoHandle

\* The Variables registered on connection id.
VariablesOf(st, map, id) == {v \in MVarIds : map[v] = id /\ getVariable(st, map, v)}

\* A task that awaits gateway.connect() of the gateway just created for id;
\* before: the Variables the connection had when the call began.
ConnectTask(op, st, id, wasConnected, before) ==
  [op |-> op, pc |-> "connect", conn |-> id, g |-> st.connections[id],
   wasConnected |-> wasConnected, before |-> before]

\* What a finished updateConnection call leaves for the record.
Updated(id, wasConnected, rejected, st, before) ==
  [op |-> "updated", conn |-> id, wasConnected |-> wasConnected,
   rejected |-> rejected, connectedAtEnd |-> isConnectionConnected(st, id),
   before |-> before]

\* addConnection(config): throws when the id has a gateway.
AddConnection(id, config) ==
  /\ mcalls < MaxMgrCalls
  /\ connections[id] = 0
  /\ mcalls' = mcalls + 1
  /\ LET st == addConnection(MgrState, id, config)
     IN /\ SetMgr(st)
        /\ mtasks' = IF config.enabled
                     THEN Append(mtasks, ConnectTask("addConnection", st, id, FALSE, {}))
                     ELSE mtasks
  /\ UNCHANGED <<variableToConnection, notMgrVars>>

\* connectConnection(id) up to the await in gateway.connect().  One connect
\* per gateway is in flight at a time here.
ConnectConnection(id) ==
  /\ mcalls < MaxMgrCalls
  /\ connections[id] # 0
  /\ gws[connections[id]].session # "connecting"
  /\ mcalls' = mcalls + 1
  /\ gws' = [gws EXCEPT ![connections[id]] = GwConnecting(@)]
  /\ mtasks' = Append(mtasks, ConnectTask("connectConnection", MgrState, id, FALSE, {}))
  /\ UNCHANGED <<discs, connections, configs, symbolDiscoveries, variableToConnection, notMgrVars>>

\* The call of task t is over.
Finished(t, st, rejected) ==
  IF mtasks[t].op = "updateConnection"
  THEN Updated(mtasks[t].conn, mtasks[t].wasConnected, rejected, st, mtasks[t].before)
  ELSE MDone

\* client.connect() resolved: connected is set and 'connected' is emitted;
\* the manager's handler starts the discovery registered under the id.
ConnectResolved(t) ==
  /\ mtasks[t].op \notin {"done", "threw", "updated"}
  /\ mtasks[t].pc = "connect"
  /\ LET g == mtasks[t].g
         d == symbolDiscoveries[gws[g].conn]
         st == [MgrState EXCEPT
                  !.gws = [@ EXCEPT ![g].connected = TRUE, ![g].session = "open"],
                  !.discs = IF d # 0 THEN [@ EXCEPT ![d].timer = TRUE] ELSE @]
     IN /\ SetMgr(st)
        /\ mtasks' = [mtasks EXCEPT ![t] = Finished(t, st, FALSE)]
  /\ UNCHANGED <<variableToConnection, mcalls, notMgrVars>>

\* client.connect() rejected: connect() clears connected and emits 'error'.
ConnectRejected(t) ==
  /\ mtasks[t].op \notin {"done", "threw", "updated"}
  /\ mtasks[t].pc = "connect"
  /\ LET g == mtasks[t].g
         st == [MgrState EXCEPT
                  !.gws = [@ EXCEPT ![g].connected = FALSE, ![g].session = "failed"]]
     IN /\ SetMgr(st)
        /\ mtasks' = [mtasks EXCEPT ![t] = Finished(t, st, TRUE)]
  /\ UNCHANGED <<variableToConnection, mcalls, notMgrVars>>

\* disconnectConnection(id).
DisconnectConnection(id) ==
  /\ mcalls < MaxMgrCalls
  /\ connections[id] # 0
  /\ mcalls' = mcalls + 1
  /\ gws' = [gws EXCEPT ![connections[id]] = GwDisconnected(@)]
  /\ UNCHANGED <<discs, connections, configs, symbolDiscoveries, variableToConnection, mtasks, notMgrVars>>

\* removeConnection(id) for an id that has a gateway.
RemoveConnection(id) ==
  /\ mcalls < MaxMgrCalls
  /\ connections[id] # 0
  /\ mcalls' = mcalls + 1
  /\ gws' = [gws EXCEPT ![connections[id]] = GwDisconnected(@)]
  /\ connections' = [connections EXCEPT ![id] = 0]
  /\ configs' = [configs EXCEPT ![id] = Absent]
  /\ variableToConnection' =
       [v \in MVarIds |-> IF variableToConnection[v] = id THEN "" ELSE variableToConnection[v]]
  /\ UNCHANGED <<discs, symbolDiscoveries, mtasks, notMgrVars>>

\* updateConnection(id, delta) for an id that has a config, up to the await
\* of the new gateway's connect, or to its end when the merged config is not
\* enabled.
UpdateConnection(id, delta) ==
  /\ mcalls < MaxMgrCalls
  /\ configs[id] # Absent
  /\ mcalls' = mcalls + 1
  /\ LET wasConnected == isConnectionConnected(MgrState, id)
         before == VariablesOf(MgrState, variableToConnection, id)
         updatedConfig == Merged(configs[id], delta)
         st0 == [MgrState EXCEPT
                   !.gws = IF wasConnected
                           THEN [@ EXCEPT ![connections[id]] = GwDisconnected(@)]
                           ELSE @,
                   !.connections = [@ EXCEPT ![id] = 0]]
         st == addConnection(st0, id, updatedConfig)
     IN /\ SetMgr(st)
        /\ mtasks' = Append(mtasks,
                       IF updatedConfig.enabled
                       THEN ConnectTask("updateConnection", st, id, wasConnected, before)
                       ELSE Updated(id, wasConnected, FALSE, st, before))
  /\ UNCHANGED <<variableToConnection, notMgrVars>>

\* addVariable(id, variable) up to the await of the gateway's initial read;
\* it throws when the id has no gateway or the gateway is not connected.
ManagerAddVariable(id, variable) ==
  /\ mcalls < MaxMgrCalls
  /\ connections[id] # 0
  /\ gws[connections[id]].connected
  /\ mcalls' = mcalls + 1
  /\ mtasks' = Append(mtasks, [op |-> "addVariable", pc |-> "read", conn |-> id,
                               g |-> connections[id], variable |-> variable])
  /\ UNCHANGED <<gws, discs, connections, configs, symbolDiscoveries, variableToConnection, notMgrVars>>

\* gateway.addVariable: the initial read resolved.  The handle is stored under
\* the Variable's id; a polled Variable gets its timer and the call returns
\* to the manager, which maps the id to the connection; a notification
\* Variable awaits client.subscribe.
ManagerReadOk(t) ==
  /\ mtasks[t].op = "addVariable"
  /\ mtasks[t].pc = "read"
  /\ gws[mtasks[t].g].session = "open"
  /\ LET v == mtasks[t].variable
     IN /\ gws' = [gws EXCEPT ![mtasks[t].g].handles[v.id] =
                     [topic |-> v.topic, sub |-> FALSE, no |-> t]]
        /\ IF v.useNotification
           THEN /\ mtasks' = [mtasks EXCEPT ![t].pc = "subscribe"]
                /\ UNCHANGED variableToConnection
           ELSE /\ mtasks' = [mtasks EXCEPT ![t] = MDone]
                /\ variableToConnection' =
                     [variableToConnection EXCEPT ![v.id] = mtasks[t].conn]
  /\ UNCHANGED <<discs, connections, configs, symbolDiscoveries, mcalls, notMgrVars>>

\* addVariable(id, variable) when the id has no gateway (the manager throws)
\* or the gateway is not connected (the gateway throws before its try).
ManagerAddVariableThrows(id, variable) ==
  /\ mcalls < MaxMgrCalls
  /\ IF connections[id] = 0 THEN TRUE ELSE ~gws[connections[id]].connected
  /\ mcalls' = mcalls + 1
  /\ mtasks' = Append(mtasks, Threw(IF connections[id] = 0 THEN "connection" ELSE "connected"))
  /\ UNCHANGED <<gws, discs, connections, configs, symbolDiscoveries, variableToConnection, notMgrVars>>

\* The initial read rejected, had addVariable stored the handle before the
\* read.
ManagerReadFailKeepsHandle(t) ==
  /\ mtasks[t].op = "addVariable"
  /\ mtasks[t].pc = "read"
  /\ mtasks' = [mtasks EXCEPT ![t] = Threw("read")]
  /\ gws' = [gws EXCEPT ![mtasks[t].g].handles[mtasks[t].variable.id] =
                [topic |-> mtasks[t].variable.topic, sub |-> FALSE, no |-> t]]
  /\ UNCHANGED <<discs, connections, configs, symbolDiscoveries, variableToConnection, mcalls, notMgrVars>>

\* gateway.addVariable: the initial read rejected; readValue and addVariable
\* re-throw, and the manager's addVariable throws before it maps the id.
ManagerReadFail(t) ==
  /\ mtasks[t].op = "addVariable"
  /\ mtasks[t].pc = "read"
  /\ mtasks' = [mtasks EXCEPT ![t] = Threw("read")]
  /\ UNCHANGED <<gws, discs, connections, configs, symbolDiscoveries, variableToConnection, mcalls, notMgrVars>>

\* startPolling: client.subscribe settled.  Resolved, the handle keeps the
\* subscription; rejected, it falls back to polling.  Either way addVariable
\* returns and the manager maps the id to the connection.
ManagerSubscribeSettled(t, ok) ==
  /\ mtasks[t].op = "addVariable"
  /\ mtasks[t].pc = "subscribe"
  /\ ok => gws[mtasks[t].g].session = "open"
  /\ LET v == mtasks[t].variable
         g == mtasks[t].g
     IN /\ gws' = IF ok /\ gws[g].handles[v.id].no = t
                  THEN [gws EXCEPT ![g].handles[v.id].sub = TRUE]
                  ELSE gws
        /\ variableToConnection' =
             [variableToConnection EXCEPT ![v.id] = mtasks[t].conn]
  /\ mtasks' = [mtasks EXCEPT ![t] = MDone]
  /\ UNCHANGED <<discs, connections, configs, symbolDiscoveries, mcalls, notMgrVars>>

\* removeVariable(variableId) for a mapped id, up to the await of
\* client.unsubscribe, or to its end when there is nothing to unsubscribe.
ManagerRemoveVariable(vid) ==
  /\ mcalls < MaxMgrCalls
  /\ variableToConnection[vid] # ""
  /\ mcalls' = mcalls + 1
  /\ LET g == connections[variableToConnection[vid]]
     IN IF g # 0 /\ gws[g].handles[vid].sub /\ gws[g].session # "none"
        THEN /\ mtasks' = Append(mtasks, [op |-> "removeVariable", pc |-> "unsubscribe",
                                          g |-> g, vid |-> vid])
             /\ UNCHANGED <<gws, variableToConnection>>
        ELSE /\ gws' = IF g # 0 THEN [gws EXCEPT ![g].handles[vid] = NoHandle] ELSE gws
             /\ variableToConnection' = [variableToConnection EXCEPT ![vid] = ""]
             /\ UNCHANGED mtasks
  /\ UNCHANGED <<discs, connections, configs, symbolDiscoveries, notMgrVars>>

\* removeVariable: client.unsubscribe settled; the handle is deleted and the
\* manager drops the mapping.
ManagerUnsubscribed(t) ==
  /\ mtasks[t].op = "removeVariable"
  /\ gws' = [gws EXCEPT ![mtasks[t].g].handles[mtasks[t].vid] = NoHandle]
  /\ variableToConnection' = [variableToConnection EXCEPT ![mtasks[t].vid] = ""]
  /\ mtasks' = [mtasks EXCEPT ![t] = MDone]
  /\ UNCHANGED <<discs, connections, configs, symbolDiscoveries, mcalls, notMgrVars>>

NextMgr ==
  \/ \E id \in ConnIds, config \in ConfigInputs : AddConnection(id, config)
  \/ \E id \in ConnIds : ConnectConnection(id)
  \/ \E t \in DOMAIN mtasks : ConnectResolved(t)
  \/ \E t \in DOMAIN mtasks : ConnectRejected(t)
  \/ \E id \in ConnIds : DisconnectConnection(id)
  \/ \E id \in ConnIds : RemoveConnection(id)
  \/ \E id \in ConnIds, delta \in Deltas : UpdateConnection(id, delta)
  \/ \E id \in ConnIds, variable \in MVarInputs : ManagerAddVariable(id, variable)
  \/ \E t \in DOMAIN mtasks : ManagerReadOk(t)
  \/ \E t \in DOMAIN mtasks : ManagerReadFail(t)
  \/ \E t \in DOMAIN mtasks, ok \in BOOLEAN : ManagerSubscribeSettled(t, ok)
  \/ \E vid \in MVarIds : ManagerRemoveVariable(vid)
  \/ \E t \in DOMAIN mtasks : ManagerUnsubscribed(t)

\* The manager with addVariable calls that succeed and fail.
NextAdd ==
  \/ \E id \in ConnIds, config \in ConfigInputs : AddConnection(id, config)
  \/ \E t \in DOMAIN mtasks : ConnectResolved(t)
  \/ \E t \in DOMAIN mtasks : ConnectRejected(t)
  \/ \E id \in ConnIds : DisconnectConnection(id)
  \/ \E id \in ConnIds, variable \in MVarInputs : ManagerAddVariable(id, variable)
  \/ \E id \in ConnIds, variable \in MVarInputs : ManagerAddVariableThrows(id, variable)
  \/ \E t \in DOMAIN mtasks : ManagerReadOk(t)
  \/ \E t \in DOMAIN mtasks : ManagerReadFail(t)
  \/ \E t \in DOMAIN mtasks, ok \in BOOLEAN : ManagerSubscribeSettled(t, ok)

InitMgrSpec == InitBuf /\ capacity = 1 /\ InitGw /\ InitDisc /\ plcVersion = 0 /\ InitReg /\ plcSymbols = {} /\ InitQueue /\ InitRest

SpecMgr == InitMgrSpec /\ [][NextMgr]_vars

InitAddSpec == InitBuf /\ capacity = 1 /\ InitGw /\ InitDisc /\ plcVersion = 0 /\ InitReg /\ plcSymbols = {} /\ InitQueue /\ InitRest

SpecAdd == InitAddSpec /\ [][NextAdd]_vars

(***************************************************************************)
(* RedisCache (src/src/persistence.ts).  The ioredis client is the         *)
(* environment: a command sent while Redis is up is executed; a command    *)
(* that cannot reach Redis stays queued while the client retries and is    *)
(* rejected when it gives up (maxRetriesPerRequest).                       *)
(***************************************************************************)
\* A get or set call that is over, with what the caller got.
CallOver(c, outcome) ==
  [op |-> ccalls[c].op, key |-> ccalls[c].key, pc |-> "done",
   outcome |-> outcome, unreachable |-> ~redisUp]

\* get(key) up to `await this.client.getBuffer(fullKey)`.
CacheGet(key) ==
  /\ Len(ccalls) < MaxCacheCalls
  /\ ccalls' = Append(ccalls, [op |-> "get", key |-> key, pc |-> "getBuffer"])
  /\ UNCHANGED <<redisUp, store, hitCount, missCount, setCount, notCacheVars>>

\* set(key, value, ttl) up to `await this.client.setex` or `await this.client.set`.
CacheSet(key, ttl) ==
  /\ Len(ccalls) < MaxCacheCalls
  /\ ccalls' = Append(ccalls, [op |-> "set", key |-> key, pc |-> "set", ttl |-> ttl])
  /\ UNCHANGED <<redisUp, store, hitCount, missCount, setCount, notCacheVars>>

\* get: getBuffer resolved.  No data is a miss; an entry past its ttl is
\* deleted first (the next await); anything else is a hit.
GetBufferResolved(c) ==
  /\ ccalls[c].pc = "getBuffer"
  /\ redisUp
  /\ LET data == store[ccalls[c].key]
     IN IF data = "none"
        THEN /\ missCount' = missCount + 1
             /\ ccalls' = [ccalls EXCEPT ![c] = CallOver(c, "miss")]
             /\ UNCHANGED hitCount
        ELSE IF data = "expired"
        THEN /\ ccalls' = [ccalls EXCEPT ![c].pc = "del"]
             /\ UNCHANGED <<hitCount, missCount>>
        ELSE /\ hitCount' = hitCount + 1
             /\ ccalls' = [ccalls EXCEPT ![c] = CallOver(c, "hit")]
             /\ UNCHANGED missCount
  /\ UNCHANGED <<redisUp, store, setCount, notCacheVars>>

\* get: the delete of the expired entry resolved; the call reports a miss.
DelResolved(c) ==
  /\ ccalls[c].pc = "del"
  /\ redisUp
  /\ store' = [store EXCEPT ![ccalls[c].key] = "none"]
  /\ missCount' = missCount + 1
  /\ ccalls' = [ccalls EXCEPT ![c] = CallOver(c, "miss")]
  /\ UNCHANGED <<redisUp, hitCount, setCount, notCacheVars>>

\* set: the write resolved.
SetResolved(c) ==
  /\ ccalls[c].pc = "set"
  /\ redisUp
  /\ store' = [store EXCEPT ![ccalls[c].key] = IF ccalls[c].ttl THEN "fresh" ELSE "kept"]
  /\ setCount' = setCount + 1
  /\ ccalls' = [ccalls EXCEPT ![c] = CallOver(c, "stored")]
  /\ UNCHANGED <<redisUp, hitCount, missCount, notCacheVars>>

\* The awaited command is rejected because Redis cannot be reached.  get and
\* set wrap their body in try/finally without a catch: the finally emits the
\* performance metric and the rejection goes on to the caller.
CommandRejected(c) ==
  /\ ccalls[c].pc \in {"getBuffer", "del", "set"}
  /\ ~redisUp
  /\ ccalls' = [ccalls EXCEPT ![c] = CallOver(c, "error")]
  /\ UNCHANGED <<redisUp, store, hitCount, missCount, setCount, notCacheVars>>

\* Redis becomes unreachable, or reachable again (the client reconnects).
RedisGoesDown ==
  /\ redisUp
  /\ redisUp' = FALSE
  /\ UNCHANGED <<store, ccalls, hitCount, missCount, setCount, notCacheVars>>

RedisComesUp ==
  /\ ~redisUp
  /\ redisUp' = TRUE
  /\ UNCHANGED <<store, ccalls, hitCount, missCount, setCount, notCacheVars>>

\* Time passes the ttl of an entry (entry.timestamp + ttl), and Redis evicts
\* an entry written with setex.
EntryExpires(key) ==
  /\ store[key] = "fresh"
  /\ store' = [store EXCEPT ![key] = "expired"]
  /\ UNCHANGED <<redisUp, ccalls, hitCount, missCount, setCount, notCacheVars>>

RedisEvicts(key) ==
  /\ store[key] = "expired"
  /\ store' = [store EXCEPT ![key] = "none"]
  /\ UNCHANGED <<redisUp, ccalls, hitCount, missCount, setCount, notCacheVars>>

NextCache ==
  \/ \E key \in CacheKeys : CacheGet(key)
  \/ \E key \in CacheKeys, ttl \in BOOLEAN : CacheSet(key, ttl)
  \/ \E c \in DOMAIN ccalls : GetBufferResolved(c)
  \/ \E c \in DOMAIN ccalls : DelResolved(c)
  \/ \E c \in DOMAIN ccalls : SetResolved(c)
  \/ \E c \in DOMAIN ccalls : CommandRejected(c)
  \/ RedisGoesDown
  \/ RedisComesUp
  \/ \E key \in CacheKeys : EntryExpires(key)
  \/ \E key \in CacheKeys : RedisEvicts(key)

InitCacheSpec == InitBuf /\ capacity = 1 /\ InitGw /\ InitDisc /\ plcVersion = 0 /\ InitReg /\ plcSymbols = {} /\ InitQueue /\ InitMgr /\ InitCache /\ InitPerf /\ maxMetricsPerOperation = 1

SpecCache == InitCacheSpec /\ [][NextCache]_vars

(***************************************************************************)
(* PerformanceMonitor (src/src/network-scanner.ts).  Time is counted in    *)
(* hours.                                                                  *)
(***************************************************************************)
\* The trim of recordMetric, were it to drop the newest duration.
TrimmedNewest(durations) ==
  IF Len(durations) > maxMetricsPerOperation
  THEN SubSeq(durations, 1, Len(durations) - 1)
  ELSE durations

\* The trim of recordMetric: durations.shift() when the array is longer
\* than maxMetricsPerOperation.
Trimmed(durations) ==
  IF Len(durations) > maxMetricsPerOperation
  THEN Tail(durations)
  ELSE durations

\* The monitor's maps, with the history of what was recorded and when.
PerfState ==
  [metrics |-> metrics, operationCounts |-> operationCounts,
   recorded |-> recorded, lastSample |-> lastSample]

SetPerf(st) ==
  /\ metrics' = st.metrics
  /\ operationCounts' = st.operationCounts
  /\ recorded' = st.recorded
  /\ lastSample' = st.lastSample

\* The body of recordMetric(operation, durationNs).
recordMetric(st, operation, durationNs) ==
  [st EXCEPT !.metrics = [@ EXCEPT ![operation] = Trimmed(Append(@, durationNs))],
             !.operationCounts = [@ EXCEPT ![operation] = @ + 1],
             !.recorded = [@ EXCEPT ![operation] = Append(@, durationNs)],
             !.lastSample = [@ EXCEPT ![operation] = perfNow]]

\* recordMetric(operation, durationNs), called directly.
RecordMetric(operation, durationNs) ==
  /\ Len(recorded[operation]) < MaxRecords
  /\ SetPerf(recordMetric(PerfState, operation, durationNs))
  /\ UNCHANGED <<maxMetricsPerOperation, measured, perfNow, cleanupRuns, notPerfVars>>

\* `${operation}:error`
ErrorKey(operation) == "read:error"

\* The listener setupEventListeners registers on the event bus: it records
\* every performance metric that is emitted.
OnPerformanceMetric(st, metric) == recordMetric(st, metric.operation, metric.duration)

\* eventBus.emitPerformanceMetric(metric): EventEmitter2 runs the listeners
\* synchronously, the monitor's own among them.
emitPerformanceMetric(st, metric) == OnPerformanceMetric(st, metric)

\* measure(operation, fn) up to `await fn()`.
MeasureStart(operation) ==
  /\ Len(measured) < MaxMeasures
  /\ measured' = Append(measured, [operation |-> operation, pc |-> "fn"])
  /\ UNCHANGED <<maxMetricsPerOperation, metrics, operationCounts, recorded, lastSample,
                 perfNow, cleanupRuns, notPerfVars>>

\* measure: fn() resolved.  The duration is recorded and then emitted as a
\* performance metric; the result is returned.
MeasureOk(m, duration) ==
  /\ measured[m].pc = "fn"
  /\ Len(recorded[measured[m].operation]) + 2 <= MaxRecords
  /\ LET operation == measured[m].operation
         st == recordMetric(PerfState, operation, duration)
     IN SetPerf(emitPerformanceMetric(st, [operation |-> operation, duration |-> duration]))
  /\ measured' = [measured EXCEPT ![m] =
                    [operation |-> measured[m].operation, pc |-> "done", failed |-> FALSE,
                     rethrown |-> FALSE, duration |-> duration]]
  /\ UNCHANGED <<maxMetricsPerOperation, perfNow, cleanupRuns, notPerfVars>>

\* measure: fn() rejected.  The duration is recorded under the error key and
\* the error is thrown again.
MeasureFail(m, duration) ==
  /\ measured[m].pc = "fn"
  /\ Len(recorded[ErrorKey(measured[m].operation)]) < MaxRecords
  /\ SetPerf(recordMetric(PerfState, ErrorKey(measured[m].operation), duration))
  /\ measured' = [measured EXCEPT ![m] =
                    [operation |-> measured[m].operation, pc |-> "done", failed |-> TRUE,
                     rethrown |-> TRUE, duration |-> duration]]
  /\ UNCHANGED <<maxMetricsPerOperation, perfNow, cleanupRuns, notPerfVars>>

\* reset(operation).
ResetOperation(operation) ==
  /\ recorded[operation] # <<>>
  /\ metrics' = [metrics EXCEPT ![operation] = <<>>]
  /\ operationCounts' = [operationCounts EXCEPT ![operation] = 0]
  /\ recorded' = [recorded EXCEPT ![operation] = <<>>]
  /\ lastSample' = [lastSample EXCEPT ![operation] = 0]
  /\ UNCHANGED <<maxMetricsPerOperation, measured, perfNow, cleanupRuns, notPerfVars>>

\* resetAll().
ResetAll ==
  /\ \E o \in Operations : recorded[o] # <<>>
  /\ metrics' = [o \in Operations |-> <<>>]
  /\ operationCounts' = [o \in Operations |-> 0]
  /\ recorded' = [o \in Operations |-> <<>>]
  /\ lastSample' = [o \in Operations |-> 0]
  /\ UNCHANGED <<maxMetricsPerOperation, measured, perfNow, cleanupRuns, notPerfVars>>

\* An hour passes.
PerfTick ==
  /\ perfNow < MaxPerfTime
  /\ perfNow' = perfNow + 1
  /\ UNCHANGED <<maxMetricsPerOperation, metrics, operationCounts, recorded, lastSample,
                 measured, cleanupRuns, notPerfVars>>

\* maxAge of cleanup(), in hours (3600000 ms).
MaxAge == 1

\* getOperationMetrics(operation).lastUpdate: Date.now() at the time of the
\* call (null when the operation has no durations).
LastUpdate(operation) == perfNow

\* cleanup(), run by the cleanup timer: every operation with durations whose
\* metrics.lastUpdate is more than maxAge before now is deleted.
Cleanup ==
  /\ cleanupRuns < MaxCleanups
  /\ cleanupRuns' = cleanupRuns + 1
  /\ LET Old(o) == metrics[o] # <<>> /\ perfNow - LastUpdate(o) > MaxAge
     IN /\ metrics' = [o \in Operations |-> IF Old(o) THEN <<>> ELSE metrics[o]]
        /\ operationCounts' = [o \in Operations |-> IF Old(o) THEN 0 ELSE operationCounts[o]]
  /\ UNCHANGED <<maxMetricsPerOperation, recorded, lastSample, measured, perfNow, notPerfVars>>

NextPerf ==
  \/ \E operation \in Operations, durationNs \in Durations : RecordMetric(operation, durationNs)
  \/ \E operation \in MeasuredOperations : MeasureStart(operation)
  \/ \E m \in DOMAIN measured, duration \in Durations : MeasureOk(m, duration)
  \/ \E m \in DOMAIN measured, duration \in Durations : MeasureFail(m, duration)
  \/ \E operation \in Operations : ResetOperation(operation)
  \/ ResetAll

InitPerfSpec == InitBuf /\ capacity = 1 /\ InitGw /\ InitDisc /\ plcVersion = 0 /\ InitReg /\ plcSymbols = {} /\ InitQueue /\ InitMgr /\ InitCache /\ redisUp /\ InitPerf

SpecPerf == InitPerfSpec /\ [][NextPerf]_vars

\* The monitor with its cleanup timer, over hours.
NextClean ==
  \/ \E operation \in Operations, durationNs \in Durations : RecordMetric(operation, durationNs)
  \/ \E operation \in Operations : ResetOperation(operation)
  \/ PerfTick
  \/ Cleanup

InitCleanSpec == InitBuf /\ capacity = 1 /\ InitGw /\ InitDisc /\ plcVersion = 0 /\ InitReg /\ plcSymbols = {} /\ InitQueue /\ InitMgr /\ InitCache /\ redisUp /\ InitPerf /\ maxMetricsPerOperation = 1

SpecClean == InitCleanSpec /\ [][NextClean]_vars

(***************************************************************************)
(* History-based description of the buffer's contents: the references of   *)
(* the min(sinceClear, capacity) most recent pushes, oldest first.         *)
(***************************************************************************)
Stored == MathMin(sinceClear, capacity)
Contents == [i \in 1 .. Stored |-> Len(heap) - Stored + i]
TimesSorted == \A i \in 1 .. Stored - 1 :
                 heap[Contents[i]].timestamp <= heap[Contents[i + 1]].timestamp

(***************************************************************************)
(* Claims about the ring buffer.                                           *)
(***************************************************************************)
RECURSIVE SumTo(_, _)
SumTo(f, n) == IF n = 0 THEN 0 ELSE f[n] + SumTo(f, n - 1)

\* C1: after n > k pushes since the last clear into a buffer of capacity k,
\* length() is k, oldest() is the (n-k+1)-th pushed entry and latest() is the
\* n-th pushed entry.
C1_OverwriteLaw ==
  sinceClear > capacity =>
    /\ (result.op = "length" => result.val = capacity)
    /\ (result.op = "oldest" => result.val = Len(heap) - capacity + 1)
    /\ (result.op = "latest" => result.val = Len(heap))

C1_Witness ==
  /\ capacity >= 2
  /\ sinceClear > capacity
  /\ result.op = "oldest"
  /\ result.val = Len(heap) - capacity + 1

\* C2: when the stored entries have non-decreasing timestamps, range(a,b)
\* returns exactly the stored entries with a <= timestamp <= b, each once,
\* oldest first (so in ascending timestamp order).
C2_RangeInclusive ==
  (result.op = "getRange" /\ TimesSorted) =>
    /\ result.val = SelectSeq(Contents,
         LAMBDA e : result.startTime <= heap[e].timestamp /\ heap[e].timestamp <= result.endTime)
    /\ \A i \in 1 .. Len(result.val) - 1 :
         heap[result.val[i]].timestamp <= heap[result.val[i + 1]].timestamp

C2_Witness ==
  /\ result.op = "getRange"
  /\ TimesSorted
  /\ sinceClear > capacity
  /\ capacity >= 2
  /\ Len(result.val) >= 1
  /\ Len(result.val) < size
  /\ heap[result.val[Len(result.val)]].timestamp = result.endTime

\* What reading the whole buffer returns: the stored entries by value.
ReadBack == [i \in 1 .. size |-> heap[toArray[i]]]

\* C3: latest(), oldest() and at(i) hand out snapshot copies: as long as
\* nothing is pushed or cleared, every read of the buffer returns what it
\* returned before, whatever the caller does with a returned entry.
C3_SnapshotCopy ==
  [][(UNCHANGED <<buffer, head, tail, size>>) => ReadBack' = ReadBack]_vars

\* C4: stats() on a non-empty buffer returns count = number of entries, min,
\* max and average over exactly the numeric entries, and latest = the most
\* recently pushed value.
C4_Stats ==
  (result.op = "getStats" /\ Stored > 0) =>
    LET numeric == SelectSeq(Contents, LAMBDA e : heap[e].value.t = "number")
        nums == [i \in 1 .. Len(numeric) |-> heap[numeric[i]].value.n]
    IN /\ result.val.count = Stored
       /\ result.val.latest = heap[Len(heap)].value
       /\ Len(nums) > 0 =>
            /\ result.val.min = Dbl(CHOOSE x \in {nums[i] : i \in 1 .. Len(nums)} :
                                      \A i \in 1 .. Len(nums) : x <= nums[i])
            /\ result.val.max = Dbl(CHOOSE x \in {nums[i] : i \in 1 .. Len(nums)} :
                                      \A i \in 1 .. Len(nums) : x >= nums[i])
            /\ result.val.avg.num * Len(nums) = SumTo(nums, Len(nums)) * result.val.avg.den

\* C5: lastN(n) returns exactly the min(n, length()) most recently pushed
\* entries, oldest first, for every n >= 0 and every buffer state.
C5_LastN ==
  result.op = "getLast" =>
    LET c == MathMin(result.n, Stored)
    IN result.val = SubSeq(Contents, Stored - c + 1, Stored)

C5_Witness ==
  /\ result.op = "getLast"
  /\ sinceClear > capacity
  /\ result.n >= 1
  /\ result.n < size
  /\ tail < result.n
  /\ Len(result.val) = result.n

(***************************************************************************)
(* Claims about the PLC session (AdsGateway).                              *)
(***************************************************************************)
LiveSessions == {c \in DOMAIN clients : clients[c] = "open"}
Registered == {vid \in AllIds : handles[vid] # 0}
HasNotification(h) == hobj[h].notificationHandle # 0
HasPollTimer(h) == hobj[h].pollTimer # "none"
Subscribing(h) == \E t \in DOMAIN tasks : tasks[t].pc = "subscribe" /\ tasks[t].h = h

\* C6: under any interleaving of connect and disconnect calls there is never
\* more than one live ADS session (open client) for the connection.
C6_AtMostOneSession == Cardinality(LiveSessions) <= 1

C8_PerVariableOrder ==
  \A vid \in AllIds : \A i \in 1 .. Len(delivered[vid]) - 1 :
    delivered[vid][i] <= delivered[vid][i + 1]

(***************************************************************************)
(* Claims about symbol discovery.                                          *)
(***************************************************************************)
DiscoveryEventTypes == {"symbols-discovered", "variables-discovered", "online-change-detected"}
Running == {r \in DOMAIN runs : runs[r].pc # "done"}

\* C9 (as claimed): re-running discovery while the PLC's counter equals the
\* last observed value emits no symbols-discovered, variables-discovered or
\* online-change-detected event.
C9_SameCounterSilent ==
  \A e \in discEvents : e.type \in DiscoveryEventTypes => ~e.same

\* C9 (amended): a discovery check (checkForChanges) that reads a counter
\* equal to the last observed value emits none of the three events; a manual
\* triggerDiscovery enumerates and emits whatever the counter is.
C9_SameCounterCheckSilent ==
  /\ \A e \in discEvents : (e.type \in DiscoveryEventTypes /\ e.src = "tick") => ~e.same
  /\ \A r \in DOMAIN runs :
       (runs[r].src = "tick" /\ runs[r].same) =>
          (runs[r].pc = "done" /\ ~\E e \in discEvents : e.run = r)

C9_Witness ==
  /\ \E r \in DOMAIN runs : runs[r].src = "tick" /\ runs[r].same /\ runs[r].pc = "done"
  /\ \E e \in discEvents : e.src = "tick" /\ e.type = "online-change-detected"
  /\ \E e \in discEvents : e.src = "manual" /\ e.same

\* C10: two discovery iterations for the same connection never overlap in
\* time.
C10_NoOverlap == Cardinality(Running) <= 1

(***************************************************************************)
(* Claims about OnlineChange-driven re-registration.                       *)
(***************************************************************************)
\* The handle objects ever created for a Variable that still acquire: their
\* poll timer runs, or their subscription is live on an open session.
Acquiring(h) ==
  \/ hobj[h].pollTimer = "active"
  \/ hobj[h].subActive /\ IsOpen(hobj[h].notificationHandle)
AcquiringFor(vid) == {h \in DOMAIN hobj : hobj[h].vid = vid /\ Acquiring(h)}
HandlersIdle == \A a \in DOMAIN autoAdd : RunFinished(a)

\* C11: when discovery re-registers Variables, a Variable whose symbol still
\* exists keeps its handle (it is not re-created) and its poll timer or
\* subscription is neither replaced nor duplicated.
C11_KeepsHandle ==
  /\ [][\A vid \in VarIds :
          (handles[vid] # 0 /\ vid \in plcSymbols /\ vid \in plcSymbols')
             => handles'[vid] = handles[vid]]_vars
  /\ [](\A vid \in VarIds : Cardinality(AcquiringFor(vid)) <= 1)

\* C12: once discovery has re-registered after an OnlineChange, a Variable
\* whose symbol is gone from the PLC is deleted and nothing acquires it any
\* more (no poll timer, no subscription, no read in flight).
C12_RemovedDeleted ==
  (/\ autoAdd # <<>>
   /\ HandlersIdle
   /\ autoAdd[Len(autoAdd)].symbols = plcSymbols) =>
     \A vid \in VarIds \ plcSymbols :
       /\ handles[vid] = 0
       /\ AcquiringFor(vid) = {}
       /\ \A c \in DOMAIN chan : \A i \in DOMAIN chan[c] : hobj[chan[c][i].h].vid # vid

(***************************************************************************)
(* Claims about the work queue.                                            *)
(***************************************************************************)
WriteJobs == {j \in DOMAIN jobs : jobs[j].queue = "variable-write"}

\* C13: a variable-write job is completed (acknowledged as successful) only
\* after the PLC session's write for that job has succeeded.
C13_AckAfterWrite ==
  \A j \in WriteJobs : jobs[j].state = "completed" => jobs[j].write = "ok"

\* C14: writes to the same Variable are applied in the order in which they
\* were enqueued, whatever fails and is retried.
C14_WriteOrder ==
  \A i \in 1 .. Len(applied) - 1 : applied[i] < applied[i + 1]

\* C15: of a variable-write and a persistence job that were both enqueued
\* while the workers were busy, the variable-write is dequeued first: the
\* pending priority-2 job is never taken while the priority-1 job waits.
C15_PriorityFirst ==
  [][\A j \in DOMAIN jobs :
       (/\ jobs[j].priority = 2 /\ jobs[j].busy
        /\ jobs[j].state = "waiting" /\ jobs'[j].state = "active")
          => ~\E k \in DOMAIN jobs :
                jobs[k].priority = 1 /\ jobs[k].busy /\ jobs[k].state = "waiting"]_vars

\* C16: a job that keeps failing is attempted at most `attempts` times, the
\* delay before a retry never exceeds 60 s, and the job counts as failed only
\* at its terminal failure.
C16_RetryBound ==
  \A j \in DOMAIN jobs :
    /\ jobs[j].attemptsMade <= jobs[j].attempts
    /\ jobs[j].state = "delayed" => jobs[j].delay <= 60000
    /\ jobs[j].state = "failed" => jobs[j].attemptsMade = jobs[j].attempts

\* C17: during shutdown no discovery or persistence job is aborted (left
\* unprocessed by a closed queue) while a variable-write job is still pending.
C17_DrainPriority ==
  \A q \in {"persistence", "discovery"} :
    (q \in closedQ /\ Pending(q) # {}) =>
       (Pending("variable-write") \cup Active("variable-write") = {})

(***************************************************************************)
(* Claims about session state, teardown and reconnection.                  *)
(***************************************************************************)
\* A read of the current session comes back failed because the link dropped
\* (the poll closure's catch runs).
ReadFailsOnLostLink ==
  /\ client # 0
  /\ clients[client] = "lost"
  /\ chan[client] # <<>>
  /\ Head(chan[client]).kind = "read"
  /\ chan'[client] = Tail(chan[client])

\* C18: connected is true only between a successful connect and the next
\* failure or disconnect: some session was opened whenever it is true, and it
\* is false once a read has failed because the link dropped.
C18_ConnectedFlag ==
  /\ [](connected => \E c \in DOMAIN clients : clients[c] \in {"open", "lost"})
  /\ [][ReadFailsOnLostLink => ~connected']_vars

\* disconnect() was the last connect/disconnect call and closed the session.
Disconnected == client # 0 /\ clients[client] = "closed"

\* C19: once disconnect() has returned, no poll timer and no notification
\* subscription is active, and until a new connect no variable-changed and no
\* new variable-error comes out.
C19_TearDown ==
  /\ [](Disconnected => \A h \in DOMAIN hobj : ~Acquiring(h))
  /\ [][(Disconnected /\ Disconnected') =>
          /\ delivered' = delivered
          /\ \A h \in DOMAIN hobj : hobj'[h].error => hobj[h].error]_vars

\* C20: after a session failure caused by lost connectivity the manager has a
\* reconnect scheduled (a timer) or under way.
C20_ReconnectBackoff ==
  [][ReadFailsOnLostLink =>
       (ManagerTimers # {} \/ \E c \in DOMAIN clients : clients'[c] = "connecting")]_vars

(***************************************************************************)
(* Claims about recovery, read failures and struct fields (AdsGateway).    *)
(***************************************************************************)
\* A session is open again after an earlier one was lost, by a new connect().
Reconnected ==
  /\ connected
  /\ IsOpen(client)
  /\ \E c \in DOMAIN clients : c < client /\ clients[c] = "lost"

\* The handle can deliver values without being re-added: its poll timer
\* runs, its subscribe call is pending, or it has a subscription on a session
\* that disconnect() has not closed (a subscription on a dropped link is
\* counted, were the Client to restore it).
CanResume(h) ==
  \/ hobj[h].pollTimer = "active"
  \/ Subscribing(h)
  \/ hobj[h].subActive /\ clients[hobj[h].notificationHandle] # "closed"

\* C21: after a connection was lost and a session is established again,
\* every Variable registered through addVariable delivers values again by
\* polling or by notification, without being re-added.
C21_ResumesAfterReconnect ==
  Reconnected =>
    \A vid \in Registered :
      ~hobj[handles[vid]].virtual => CanResume(handles[vid])

\* The step in which the read at the head of Client c's connection comes
\* back failed: the Variable carries the error afterwards.
ReadFails(c) ==
  /\ chan[c] # <<>>
  /\ Head(chan[c]).kind = "read"
  /\ chan'[c] = Tail(chan[c])
  /\ hobj'[Head(chan[c]).h].error

\* C22: a read failure on one Variable marks that Variable with the error and
\* changes nothing else: its value, its timer and subscription stay, every
\* other Variable is untouched and keeps being sampled, nothing is delivered,
\* and the session is neither closed nor reconnected.
C22_ReadFailureIsolated ==
  [][\A c \in DOMAIN chan :
       ReadFails(c) =>
         LET h == Head(chan[c]).h
         IN /\ hobj' = [hobj EXCEPT ![h].error = TRUE]
            /\ handles' = handles
            /\ delivered' = delivered
            /\ tasks' = tasks
            /\ client' = client
            /\ clients' = clients
            /\ connected' = connected]_vars

\* The only session ever opened is open, a polled Variable that had a good
\* value carries a read error, and another Variable is still sampled.
C22_Witness ==
  /\ Len(clients) = 1
  /\ connected
  /\ IsOpen(client)
  /\ \E h, g \in DOMAIN hobj :
       /\ hobj[h].vid # hobj[g].vid
       /\ handles[hobj[h].vid] = h
       /\ handles[hobj[g].vid] = g
       /\ hobj[h].error
       /\ hobj[h].value # 0
       /\ hobj[h].pollTimer = "active"
       /\ ~hobj[g].error
       /\ Acquiring(g)

\* C28: a struct-derived sub-variable is registered only while its parent
\* is: once the parent's entry is deleted, no sub-variable derived from it
\* is in the handle map.
C28_SubVariableHasParent ==
  \A vid \in VarIds :
    (IsStruct(vid) /\ handles[vid] = 0) => handles[SubId(vid)] = 0

(***************************************************************************)
(* Claims about the connection manager.                                    *)
(***************************************************************************)
\* removeConnection(id) has completed and the id was not added again.
Removed(id) == connections[id] = 0 /\ configs[id] = Absent

\* The Variables that are live: registered in the handle map of the gateway
\* of a listed connection.
LiveVariables ==
  {cv \in ConnIds \X MVarIds :
     /\ connections[cv[1]] # 0
     /\ gws[connections[cv[1]]].handles[cv[2]] # NoHandle}
TopicOf(cv) == gws[connections[cv[1]]].handles[cv[2]].topic

\* C23: when removeConnection(id) completes, the gateway of id is
\* disconnected and the connection is no longer listed; and from then on no
\* Variable is registered under id in the manager.
C23_RemoveConnection ==
  /\ [][\A id \in ConnIds :
          (connections[id] # 0 /\ Removed(id)') =>
             /\ ~gws'[connections[id]].connected
             /\ gws'[connections[id]].session # "open"]_vars
  /\ [](\A id \in ConnIds :
          Removed(id) => \A v \in MVarIds : variableToConnection[v] # id)

\* C24: after removeConnection(id) no discovery timer of id is scheduled, so
\* no check and no enumeration runs for id any more.
C24_DiscoveryCancelled ==
  \A id \in ConnIds :
    Removed(id) => \A d \in DOMAIN discs : discs[d].conn = id => ~discs[d].timer

\* C25: an updateConnection call on a connection that was connected, and whose
\* connect was not refused by the PLC, has the connection connected when it
\* completes.
C25_UpdateReconnects ==
  \A t \in DOMAIN mtasks :
    (mtasks[t].op = "updated" /\ mtasks[t].wasConnected /\ ~mtasks[t].rejected)
       => mtasks[t].connectedAtEnd

\* C26: no two live Variables share an id.
C26_UniqueIds ==
  \A cv, cw \in LiveVariables : cv # cw => cv[2] # cw[2]

\* C27: no two live Variables have the same MQTT topic.
C27_UniqueTopics ==
  \A cv, cw \in LiveVariables : cv # cw => TopicOf(cv) # TopicOf(cw)

(***************************************************************************)
(* Claims about the cache and the performance monitor.                     *)
(***************************************************************************)
\* C29: a cache read that ends while Redis is unreachable returns a miss
\* and a cache write that ends while Redis is unreachable is dropped;
\* neither raises an error to the caller.
C29_CacheFailsSoft ==
  \A c \in DOMAIN ccalls :
    (ccalls[c].pc = "done" /\ ccalls[c].unreachable) =>
       /\ ccalls[c].outcome # "error"
       /\ ccalls[c].op = "get" => ccalls[c].outcome = "miss"

\* The last n elements of a sequence.
LastOf(seq, n) ==
  IF Len(seq) <= n THEN seq ELSE SubSeq(seq, Len(seq) - n + 1, Len(seq))

\* C30: for every operation the monitor holds at most maxMetricsPerOperation
\* samples (10 000 unless the constructor is given another limit), and they
\* are the most recently recorded samples of the operation, in the order in
\* which they were recorded.
C30_BoundedRecent ==
  \A o \in Operations :
    /\ Len(metrics[o]) <= maxMetricsPerOperation
    /\ metrics[o] = LastOf(recorded[o], maxMetricsPerOperation)

\* More samples were recorded for an operation than the monitor keeps, and
\* the oldest and the newest sample kept differ.
C30_Witness ==
  \E o \in Operations :
    /\ Len(recorded[o]) > maxMetricsPerOperation
    /\ Len(metrics[o]) = maxMetricsPerOperation
    /\ maxMetricsPerOperation >= 2
    /\ metrics[o][1] # metrics[o][Len(metrics[o])]

\* The step in which measure call m ends.
MeasureEnds(m) == measured[m].pc = "fn" /\ measured'[m].pc = "done"

\* C31: measure(operation, fn) records the latency of a successful call once
\* under operation and nothing under operation:error; it records the latency
\* of a failing call once under operation:error and nothing under operation,
\* and throws the failure again.
C31_MeasureRecordsOnce ==
  [][\A m \in DOMAIN measured :
       MeasureEnds(m) =>
         LET operation == measured[m].operation
             d == measured'[m].duration
         IN IF measured'[m].failed
            THEN /\ recorded'[ErrorKey(operation)] = Append(recorded[ErrorKey(operation)], d)
                 /\ recorded'[operation] = recorded[operation]
                 /\ measured'[m].rethrown
            ELSE /\ recorded'[operation] = Append(recorded[operation], d)
                 /\ recorded'[ErrorKey(operation)] = recorded[ErrorKey(operation)]]_vars

\* C32: a run of cleanup() removes every operation whose last sample was
\* recorded more than an hour ago and keeps every operation that was updated
\* within the last hour.
C32_CleanupRemovesOld ==
  [][cleanupRuns' # cleanupRuns =>
       \A o \in Operations :
         recorded[o] # <<>> =>
           IF perfNow - lastSample[o] > MaxAge
           THEN metrics'[o] = <<>>
           ELSE metrics'[o] = metrics[o]]_vars

\* C33: after any sequence of push and clear on a ring buffer of capacity
\* k >= 1: 0 <= size <= k, 0 <= head < k, 0 <= tail < k and
\* tail = (head + size) mod k.
C33_RingInvariant ==
  /\ 0 <= size /\ size <= capacity
  /\ 0 <= head /\ head < capacity
  /\ 0 <= tail /\ tail < capacity
  /\ tail = (head + size) % capacity

\* A full buffer that has wrapped: pushes have overwritten old entries.
C33_Witness ==
  /\ capacity >= 2
  /\ size = capacity
  /\ head # 0
  /\ sinceClear > capacity

(***************************************************************************)
(* Claims about the discovery check.                                       *)
(***************************************************************************)
\* A check that ran to its end without an error.
Completed(r) ==
  /\ runs[r].src = "tick"
  /\ runs[r].pc = "done"
  /\ ~\E e \in discEvents : e.run = r /\ e.type = "discovery-error"

\* C34: the first completed check of a discovery loop enumerates the PLC's
\* symbols whatever the value of the PLC's OnlineChange counter, 0 included.
C34_FirstCheckEnumerates ==
  \A r \in DOMAIN runs :
    (Completed(r) /\ \A q \in 1 .. r - 1 : ~Completed(q)) =>
       \E e \in discEvents : e.run = r /\ e.type = "symbols-discovered"

\* A check saw the counter change, its enumeration failed, and no
\* enumeration has succeeded or is under way.
EnumerationOwed ==
  /\ \E q \in DOMAIN runs : runs[q].src = "tick" /\ runs[q].symbols = "failed"
  /\ \A q \in DOMAIN runs : runs[q].symbols # "read" /\ runs[q].pc # "getSymbols"

\* C35: a detected OnlineChange is never lost: when the enumeration failed
\* after the counter change was observed, a later check that reads the
\* counter goes on to enumerate, whether or not the counter changed again.
C35_FailedEnumerationRetried ==
  [][\A r \in DOMAIN runs :
       (EnumerationOwed /\ runs[r].pc = "readVersion" /\ runs'[r].pc # "readVersion"
          /\ observed' /\ discEvents' = discEvents)
         => runs'[r].pc = "getSymbols"]_vars

\* C36: every check that terminates leaves the in-progress flag cleared: the
\* flag is set only while a check is under way.
C36_FlagClearedAtEnd ==
  isDiscovering => \E r \in DOMAIN runs : runs[r].src = "tick" /\ runs[r].pc # "done"

\* Three checks have ended, one without a change, one after an enumeration,
\* one with an error; the flag is clear.
C36_Witness ==
  /\ ~isDiscovering
  /\ \E r \in DOMAIN runs : runs[r].src = "tick" /\ runs[r].pc = "done" /\ runs[r].same
  /\ \E r \in DOMAIN runs : runs[r].src = "tick" /\ runs[r].pc = "done" /\ runs[r].symbols = "read"
  /\ \E e \in discEvents : e.src = "tick" /\ e.type = "discovery-error"

(***************************************************************************)
(* Claims about discovery timers and Variables across updateConnection.    *)
(***************************************************************************)
\* The discovery objects of connection id whose interval timer is scheduled.
ActiveTimers(id) == {d \in DOMAIN discs : discs[d].conn = id /\ discs[d].timer}

\* C37: for each connection id there is at most one active discovery timer
\* at any time.
C37_OneDiscoveryTimer ==
  \A id \in ConnIds : Cardinality(ActiveTimers(id)) <= 1

\* The step in which updateConnection call t ends.
UpdateEnds(t) ==
  /\ mtasks'[t].op = "updated"
  /\ t \in DOMAIN mtasks => mtasks[t].op = "updateConnection"

\* C38: updateConnection(id, delta) does not lose Variables: every Variable
\* registered on id before the call (and not removed by a removeVariable
\* meanwhile) is, when the call ends, still mapped to id and returned by
\* getVariable from the connection's gateway.
C38_UpdateKeepsVariables ==
  [][\A t \in DOMAIN mtasks' :
       UpdateEnds(t) =>
         \A v \in mtasks'[t].before :
           variableToConnection'[v] # "" =>
             /\ variableToConnection'[v] = mtasks'[t].conn
             /\ v \in VariablesOf([gws |-> gws', connections |-> connections'],
                                  variableToConnection', mtasks'[t].conn)]_vars

(***************************************************************************)
(* Claims about removeVariable and a failing addVariable.                  *)
(***************************************************************************)
\* removeVariable(vid) has returned and the id was not added again: the id
\* had a handle, has none now, and no removeVariable call for it is waiting.
\* Only polled Variables are looked at, whose reads the gateway itself awaits.
RemovedPolled(vid) ==
  /\ handles[vid] = 0
  /\ \E h \in DOMAIN hobj : hobj[h].vid = vid
  /\ \A h \in DOMAIN hobj : hobj[h].vid = vid => hobj[h].notificationHandle = 0
  /\ ~\E r \in removing : r.vid = vid

\* C39: after removeVariable(v) returns, no further variable-changed or
\* variable-error event is emitted for v, even if a poll read for v was in
\* flight when it was removed.
C39_SilentAfterRemove ==
  [][\A vid \in VarIds :
       RemovedPolled(vid) =>
         /\ delivered'[vid] = delivered[vid]
         /\ \A h \in DOMAIN hobj : hobj[h].vid = vid => (hobj'[h].error => hobj[h].error)]_vars

\* The step in which addVariable call t throws.
AddVariableThrows(t) ==
  /\ mtasks'[t].op = "threw"
  /\ t \in DOMAIN mtasks => mtasks[t].op # "threw"

\* C40: when addVariable fails (unknown connection, gateway not connected,
\* initial read rejected) it leaves no trace: no gateway gets a handle, and
\* with it a poll timer or a subscription, and the variable-to-connection
\* map is unchanged.
C40_FailedAddLeavesNoTrace ==
  [][(\E t \in DOMAIN mtasks' : AddVariableThrows(t)) =>
       /\ gws' = gws
       /\ variableToConnection' = variableToConnection
       /\ connections' = connections]_vars

\* addVariable has thrown for each of the three reasons, and a gateway is
\* connected.
C40_Witness ==
  /\ \A why \in {"connection", "connected", "read"} :
       \E t \in DOMAIN mtasks : mtasks[t] = Threw(why)
  /\ \E g \in DOMAIN gws : gws[g].connected

====
